---- MODULE Spec2Model ----
(***************************************************************************)
(* RISC-V 64 simulator kernel (riscv64.c, rv64i_instr.h, rv64m_instr.h,    *)
(* rsk.c): the instruction registry, the immediate decoders, the           *)
(* executors, the register accessors, cpu_execute and the API facade.      *)
(*                                                                         *)
(* A dword (uint64_t) is the set of its set bit positions, a subset of     *)
(* 0..63; a word (uint32_t) is a subset of 0..31.  Bitwise and, or, xor    *)
(* are intersection, union and symmetric difference; shifts move the       *)
(* positions and drop those that leave 0..63; addition carries.            *)
(***************************************************************************)
EXTENDS Integers, Sequences, FiniteSets, TLC

\* ---------- riscv_config.h: fundamental unit typedefs ----------

DwordBits == 0..63
WordBits  == 0..31
ByteBits  == 0..7

\* (dword) of a non-negative C integer constant below 2^31
Dw(n) == {i \in 0..30 : (n \div (2^i)) % 2 = 1}

\* the value of a dword whose set bits are all below bit 31
Val(d) == LET RECURSIVE Sum(_)
              Sum(s) == IF s = {} THEN 0
                        ELSE LET i == CHOOSE j \in s : TRUE
                             IN  2^i + Sum(s \ {i})
          IN Sum(d)

\* a binary literal 0b<digits>, digits given most significant first
Bin(digits) == {Len(digits) - i : i \in {j \in 1..Len(digits) : digits[j] = 1}}

AND(a, b) == a \cap b
OR(a, b)  == a \cup b
XOR(a, b) == (a \ b) \cup (b \ a)
NOT(a)    == DwordBits \ a

\* a << k and a >> k on uint64_t, 0 <= k <= 63
SHL(a, k) == {i + k : i \in a} \cap DwordBits
SHR(a, k) == {i - k : i \in a} \cap DwordBits
\* a >> k on int64_t (arithmetic), 0 <= k <= 63
SAR(a, k) == SHR(a, k) \cup (IF 63 \in a THEN (64 - k)..63 ELSE {})

\* the value of the k-th group of w bits of d
Limb(d, k, w) == Val({i - w * k : i \in d \cap ((w * k)..(w * k + w - 1))})
\* the low w bits of n, as the k-th group of w bits of a dword
LimbBits(n, k, w) == {j + w * k : j \in {i \in 0..(w - 1) : (n \div (2^i)) % 2 = 1}}

\* a + b on uint64_t (modulo 2^64), in four 16-bit limbs
Add64(a, b) ==
    LET s0 == Limb(a, 0, 16) + Limb(b, 0, 16)
        s1 == Limb(a, 1, 16) + Limb(b, 1, 16) + (s0 \div 65536)
        s2 == Limb(a, 2, 16) + Limb(b, 2, 16) + (s1 \div 65536)
        s3 == Limb(a, 3, 16) + Limb(b, 3, 16) + (s2 \div 65536)
    IN  LimbBits(s0, 0, 16) \cup LimbBits(s1, 1, 16)
            \cup LimbBits(s2, 2, 16) \cup LimbBits(s3, 3, 16)

\* a - b on uint64_t (modulo 2^64)
Sub64(a, b) == Add64(a, Add64(NOT(b), {0}))

\* a * b on int64_t, low 64 bits, in eight 8-bit limbs
Mul64(a, b) ==
    LET A == [k \in 0..7 |-> Limb(a, k, 8)]
        B == [k \in 0..7 |-> Limb(b, k, 8)]
        RECURSIVE Column(_, _)
        Column(k, i) == IF i > k THEN 0 ELSE A[i] * B[k - i] + Column(k, i + 1)
        RECURSIVE Product(_, _)
        Product(k, carry) ==
            IF k = 8 THEN {}
            ELSE LET s == Column(k, 0) + carry
                 IN  LimbBits(s, k, 8) \cup Product(k + 1, s \div 256)
    IN Product(0, 0)

\* a < b on uint64_t
ULT(a, b) ==
    LET d == XOR(a, b)
    IN  d # {} /\ \E i \in d : i \in b /\ \A j \in d : j <= i

\* a < b on int64_t
SLT(a, b) == IF (63 \in a) # (63 \in b) THEN 63 \in a ELSE ULT(a, b)

\* conversions between the integer types
ToWord(d) == d \cap WordBits                 \* (word), (sword): keep the low 32 bits
ToByte(d) == d \cap ByteBits                 \* (byte)
SextWord(w) == IF 31 \in w THEN (w \cap WordBits) \cup (32..63) ELSE w \cap WordBits

\* ---------- riscv64.c: preprocessor bit mask construction ----------

BITSMASK(high, low) == XOR(SHL(DwordBits, high + 1), SHL(DwordBits, low))
BITMASK(bit) == BITSMASK(bit, bit)

INSTR_SIGN   == BITMASK(31)
INSTR_FUNCT7 == BITSMASK(31, 25)
FUNCT7(bits) == AND(SHL(Bin(bits), 25), INSTR_FUNCT7)
INSTR_RS2    == BITSMASK(24, 20)
RS2(bits)    == AND(SHL(Bin(bits), 20), INSTR_RS2)
INSTR_RS1    == BITSMASK(19, 15)
RS1(bits)    == AND(SHL(Bin(bits), 15), INSTR_RS1)
INSTR_FUNCT3 == BITSMASK(14, 12)
FUNCT3(bits) == AND(SHL(Bin(bits), 12), INSTR_FUNCT3)
INSTR_RD     == BITSMASK(11, 7)
RD(bits)     == AND(SHL(Bin(bits), 7), INSTR_RD)
INSTR_OPCODE == BITSMASK(6, 0)
OPCODE(bits) == AND(Bin(bits), INSTR_OPCODE)

\* ---------- instruction decomposition functions ----------

mask_instr_opcode(instruction) == Val(ToByte(AND(instruction, INSTR_OPCODE)))
mask_instr_rd(instruction)     == Val(ToByte(SHR(AND(instruction, INSTR_RD), 7)))
mask_instr_funct3(instruction) == Val(ToByte(SHR(AND(instruction, INSTR_FUNCT3), 12)))
mask_instr_rs1(instruction)    == Val(ToByte(SHR(AND(instruction, INSTR_RS1), 15)))
mask_instr_rs2(instruction)    == Val(ToByte(SHR(AND(instruction, INSTR_RS2), 20)))
mask_instr_funct7(instruction) == Val(ToByte(SHR(AND(instruction, INSTR_FUNCT7), 25)))

\* ---------- instruction immediate decoding functions ----------

unsigned_itype_imm(instr) == SHR(AND(BITSMASK(31, 20), instr), 20)
itype_imm(instr) == SAR(SHL(unsigned_itype_imm(instr), 52), 52)

unsigned_stype_imm(instr) ==
    OR(SHR(AND(BITSMASK(31, 25), instr), 20), SHR(AND(BITSMASK(11, 7), instr), 7))
stype_imm(instr) == SAR(SHL(unsigned_stype_imm(instr), 52), 52)

unsigned_btype_imm(instr) ==
    OR(OR(SHR(AND(INSTR_SIGN, instr), 19), SHR(AND(BITSMASK(30, 25), instr), 20)),
       OR(SHR(AND(BITSMASK(11, 8), instr), 7), SHL(AND(BITMASK(7), instr), 4)))
btype_imm(instr) == SAR(SHL(unsigned_btype_imm(instr), 51), 51)

unsigned_utype_imm(instr) == AND(BITSMASK(31, 12), instr)
utype_imm(instr) == unsigned_utype_imm(instr)

unsigned_jtype_imm(instr) ==
    OR(OR(SHR(AND(INSTR_SIGN, instr), 11), SHR(AND(BITSMASK(30, 21), instr), 20)),
       OR(SHR(AND(BITMASK(20), instr), 9), AND(BITSMASK(19, 12), instr)))
jtype_imm(instr) == SAR(SHL(unsigned_jtype_imm(instr), 43), 43)

\* ---------- riscv64.c: CPU constants ----------

REGISTER_COUNT == 32

\* ---------- host services (riscv_config.h, rsk_host_services_t) ----------

\* An execution context c carries the CPU struct (c.cpu), the host service
\* calls issued so far by the running API call (c.calls), the executor's
\* updated_pc flag, the values the host's load services return (c.host_word,
\* c.host_dword) and the outcome the build gives an undefined shift (c.ub).
Call(c, call) == [c EXCEPT !.calls = Append(@, call)]

cpu_panic(c, message) == Call(c, [svc |-> "panic", msg |-> message])

cpu_load_word(c, address) ==
    [c |-> Call(c, [svc |-> "mem_load_word", address |-> address]),
     ret |-> ToWord(c.host_word)]
cpu_store_word(c, address, value) ==
    Call(c, [svc |-> "mem_store_word", address |-> address, value |-> ToWord(value)])
cpu_load_dword(c, address) ==
    [c |-> Call(c, [svc |-> "mem_load_dword", address |-> address]),
     ret |-> c.host_dword]
cpu_store_dword(c, address, value) ==
    Call(c, [svc |-> "mem_store_dword", address |-> address, value |-> value])

cpu_get_pc(c) == c.cpu.pc
cpu_set_pc(c, address) == [c EXCEPT !.cpu.pc = address]

\* index is a byte (0..255): the callers convert
cpu_read_register(c, index) ==
    IF 0 > index \/ index >= REGISTER_COUNT
    THEN [c |-> cpu_panic(c, "Register access out of bounds"), ret |-> {}]
    ELSE IF 0 = index THEN [c |-> c, ret |-> {}]
    ELSE [c |-> c, ret |-> c.cpu.x[index]]

\* cpu_write_register without the test for register 0
cpu_write_register_unguarded(c, index, value) ==
    IF 0 > index \/ index >= REGISTER_COUNT
    THEN cpu_panic(c, "Register access out of bounds")
    ELSE [c EXCEPT !.cpu.x[index] = value]

cpu_write_register(c, index, value) ==
    IF 0 > index \/ index >= REGISTER_COUNT
    THEN cpu_panic(c, "Register access out of bounds")
    ELSE IF 0 = index THEN c
    ELSE [c EXCEPT !.cpu.x[index] = value]

\* ---------- disassembly/execution shortcuts ----------

GET_FUNCT7(instr) == mask_instr_funct7(instr)
GET_RS2(instr)    == mask_instr_rs2(instr)
GET_RS1(instr)    == mask_instr_rs1(instr)
GET_FUNCT3(instr) == mask_instr_funct3(instr)
GET_RD(instr)     == mask_instr_rd(instr)
GET_OPCODE(instr) == mask_instr_opcode(instr)

READ_REG(c, index) == cpu_read_register(c, index).ret
WRITE_REG(c, index, value) == cpu_write_register(c, index, value)

GET_PC(c) == cpu_get_pc(c)
\* SET_PC without the updated_pc flag
SET_PC_unflagged(c, addr) == cpu_set_pc(c, addr)
SET_PC(c, addr) == cpu_set_pc([c EXCEPT !.updated_pc = 1], addr)

\* a shift whose count is the 64-bit value n: defined for n < 64; for n >= 64
\* the C shift is undefined and the build yields either the shift by the low
\* six bits of n (c.ub = 0) or the value with every bit shifted out (c.ub = 1)
ShiftCount(n) == Val(n \cap (0..5))
ShiftDefined(n) == n \subseteq (0..5)
ShlBy(c, a, n) == IF ShiftDefined(n) \/ c.ub = 0 THEN SHL(a, ShiftCount(n)) ELSE {}
ShrBy(c, a, n) == IF ShiftDefined(n) \/ c.ub = 0 THEN SHR(a, ShiftCount(n)) ELSE {}
SarBy(c, a, n) == IF ShiftDefined(n) \/ c.ub = 0 THEN SAR(a, ShiftCount(n))
                  ELSE IF 63 \in a THEN DwordBits ELSE {}

\* ---------- rv64i_instr.h: execution functions ----------

z_exec_lui(c, instr) ==
    WRITE_REG(c, GET_RD(instr), utype_imm(instr))

z_exec_addi(c, instr) ==
    WRITE_REG(c, GET_RD(instr), Add64(READ_REG(c, GET_RS1(instr)), itype_imm(instr)))

z_exec_xori(c, instr) ==
    WRITE_REG(c, GET_RD(instr), XOR(READ_REG(c, GET_RS1(instr)), itype_imm(instr)))

z_exec_ori(c, instr) ==
    WRITE_REG(c, GET_RD(instr), OR(READ_REG(c, GET_RS1(instr)), itype_imm(instr)))

z_exec_andi(c, instr) ==
    WRITE_REG(c, GET_RD(instr), AND(READ_REG(c, GET_RS1(instr)), itype_imm(instr)))

z_exec_slli(c, instr) ==
    WRITE_REG(c, GET_RD(instr), ShlBy(c, READ_REG(c, GET_RS1(instr)), itype_imm(instr)))

z_exec_srli(c, instr) ==
    LET imm == SHR(AND(BITSMASK(25, 20), instr), 20)
    IN  WRITE_REG(c, GET_RD(instr), ShrBy(c, READ_REG(c, GET_RS1(instr)), imm))

z_exec_srai(c, instr) ==
    LET imm == SHR(AND(BITSMASK(25, 20), instr), 20)
    IN  WRITE_REG(c, GET_RD(instr), SarBy(c, READ_REG(c, GET_RS1(instr)), imm))

z_exec_add(c, instr) ==
    WRITE_REG(c, GET_RD(instr),
              Add64(READ_REG(c, GET_RS1(instr)), READ_REG(c, GET_RS2(instr))))

z_exec_sub(c, instr) ==
    WRITE_REG(c, GET_RD(instr),
              Sub64(READ_REG(c, GET_RS1(instr)), READ_REG(c, GET_RS2(instr))))

z_exec_sll(c, instr) ==
    WRITE_REG(c, GET_RD(instr),
              ShlBy(c, READ_REG(c, GET_RS1(instr)), READ_REG(c, GET_RS2(instr))))

z_exec_srl(c, instr) ==
    WRITE_REG(c, GET_RD(instr),
              ShrBy(c, READ_REG(c, GET_RS1(instr)), READ_REG(c, GET_RS2(instr))))

z_exec_sra(c, instr) ==
    WRITE_REG(c, GET_RD(instr),
              SarBy(c, READ_REG(c, GET_RS1(instr)), READ_REG(c, GET_RS2(instr))))

RV64I_EBREAK ==
    OR(OR(OR(FUNCT7(<<0,0,0,0,0,0,0>>), RS2(<<0,0,0,0,1>>)),
          OR(RS1(<<0,0,0,0,0>>), FUNCT3(<<0,0,0>>))),
       OR(RD(<<0,0,0,0,0>>), OPCODE(<<1,1,1,0,0,1,1>>)))

z_exec_ebreak(c, instr) == c

z_exec_lw(c, instr) ==
    LET ld == cpu_load_word(c, Add64(READ_REG(c, GET_RS1(instr)), itype_imm(instr)))
    IN  [WRITE_REG(ld.c, GET_RD(instr), ld.ret) EXCEPT !.loaded = 1]

\* sw with the address taken from the I-immediate field
z_exec_sw_itype_address(c, instr) ==
    cpu_store_word(c, Add64(READ_REG(c, GET_RS1(instr)), itype_imm(instr)),
                   READ_REG(c, GET_RS2(instr)))

z_exec_sw(c, instr) ==
    cpu_store_word(c, Add64(READ_REG(c, GET_RS1(instr)), stype_imm(instr)),
                   READ_REG(c, GET_RS2(instr)))

\* jal with the link written after the jump
z_exec_jal_late_link(c, instr) ==
    LET c1 == SET_PC(c, Add64(GET_PC(c), jtype_imm(instr)))
    IN  WRITE_REG(c1, GET_RD(instr), Add64(GET_PC(c1), Dw(4)))

z_exec_jal(c, instr) ==
    LET c1 == WRITE_REG(c, GET_RD(instr), Add64(GET_PC(c), Dw(4)))
    IN  SET_PC(c1, Add64(GET_PC(c1), jtype_imm(instr)))

z_exec_jalr(c, instr) ==
    LET t  == GET_PC(c)
        c1 == SET_PC(c, AND(Add64(READ_REG(c, GET_RS1(instr)), itype_imm(instr)),
                            NOT(Dw(1))))
    IN  WRITE_REG(c1, GET_RD(instr), t)

z_exec_beq(c, instr) ==
    IF READ_REG(c, GET_RS1(instr)) = READ_REG(c, GET_RS2(instr))
    THEN SET_PC(c, Add64(GET_PC(c), btype_imm(instr)))
    ELSE c

z_exec_bne(c, instr) ==
    IF READ_REG(c, GET_RS1(instr)) # READ_REG(c, GET_RS2(instr))
    THEN SET_PC(c, Add64(GET_PC(c), btype_imm(instr)))
    ELSE c

z_exec_blt(c, instr) ==
    IF SLT(READ_REG(c, GET_RS1(instr)), READ_REG(c, GET_RS2(instr)))
    THEN SET_PC(c, Add64(GET_PC(c), btype_imm(instr)))
    ELSE c

z_exec_bge(c, instr) ==
    IF ~SLT(READ_REG(c, GET_RS1(instr)), READ_REG(c, GET_RS2(instr)))
    THEN SET_PC(c, Add64(GET_PC(c), btype_imm(instr)))
    ELSE c

z_exec_bltu(c, instr) ==
    IF ULT(READ_REG(c, GET_RS1(instr)), READ_REG(c, GET_RS2(instr)))
    THEN SET_PC(c, Add64(GET_PC(c), btype_imm(instr)))
    ELSE c

z_exec_bgeu(c, instr) ==
    IF ~ULT(READ_REG(c, GET_RS1(instr)), READ_REG(c, GET_RS2(instr)))
    THEN SET_PC(c, Add64(GET_PC(c), btype_imm(instr)))
    ELSE c

z_exec_addiw(c, instr) ==
    WRITE_REG(c, GET_RD(instr),
              SAR(SHL(Add64(READ_REG(c, GET_RS1(instr)), itype_imm(instr)), 32), 32))

z_exec_addw(c, instr) ==
    LET sum == Add64(READ_REG(c, GET_RS1(instr)), READ_REG(c, GET_RS2(instr)))
    IN  WRITE_REG(c, GET_RD(instr), SAR(SHL(sum, 32), 32))

z_exec_ld(c, instr) ==
    LET ld == cpu_load_dword(c, Add64(READ_REG(c, GET_RS1(instr)), itype_imm(instr)))
    IN  [WRITE_REG(ld.c, GET_RD(instr), ld.ret) EXCEPT !.loaded = 1]

z_exec_sd(c, instr) ==
    cpu_store_dword(c, Add64(READ_REG(c, GET_RS1(instr)), stype_imm(instr)),
                    READ_REG(c, GET_RS2(instr)))

\* ---------- rv64m_instr.h: execution functions ----------

z_exec_mul(c, instr) ==
    WRITE_REG(c, GET_RD(instr),
              Mul64(READ_REG(c, GET_RS1(instr)), READ_REG(c, GET_RS2(instr))))

\* INSTR_LINKS(name): the descriptor's .execute and .disassemble are those of name
execute(links, c, instr) ==
    CASE links = "lui"    -> z_exec_lui(c, instr)
      [] links = "addi"   -> z_exec_addi(c, instr)
      [] links = "xori"   -> z_exec_xori(c, instr)
      [] links = "ori"    -> z_exec_ori(c, instr)
      [] links = "andi"   -> z_exec_andi(c, instr)
      [] links = "slli"   -> z_exec_slli(c, instr)
      [] links = "srli"   -> z_exec_srli(c, instr)
      [] links = "srai"   -> z_exec_srai(c, instr)
      [] links = "add"    -> z_exec_add(c, instr)
      [] links = "sub"    -> z_exec_sub(c, instr)
      [] links = "sll"    -> z_exec_sll(c, instr)
      [] links = "srl"    -> z_exec_srl(c, instr)
      [] links = "sra"    -> z_exec_sra(c, instr)
      [] links = "ebreak" -> z_exec_ebreak(c, instr)
      [] links = "lw"     -> z_exec_lw(c, instr)
      [] links = "sw"     -> z_exec_sw(c, instr)
      [] links = "jal"    -> z_exec_jal(c, instr)
      [] links = "jalr"   -> z_exec_jalr(c, instr)
      [] links = "beq"    -> z_exec_beq(c, instr)
      [] links = "bne"    -> z_exec_bne(c, instr)
      [] links = "blt"    -> z_exec_blt(c, instr)
      [] links = "bge"    -> z_exec_bge(c, instr)
      [] links = "bltu"   -> z_exec_bltu(c, instr)
      [] links = "bgeu"   -> z_exec_bgeu(c, instr)
      [] links = "addiw"  -> z_exec_addiw(c, instr)
      [] links = "addw"   -> z_exec_addw(c, instr)
      [] links = "ld"     -> z_exec_ld(c, instr)
      [] links = "sd"     -> z_exec_sd(c, instr)
      [] links = "mul"    -> z_exec_mul(c, instr)

\* ---------- rv64i_instr.h: array of all implemented rv64i instruction types ----------

rv64i_instructions == <<
    [name |-> "lui",
     mask |-> INSTR_OPCODE,
     required_bits |-> OPCODE(<<0,1,1,0,1,1,1>>),
     links |-> "lui"],
    [name |-> "addi",
     mask |-> OR(INSTR_OPCODE, INSTR_FUNCT3),
     required_bits |-> OR(OPCODE(<<0,0,1,0,0,1,1>>), FUNCT3(<<0,0,0>>)),
     links |-> "addi"],
    [name |-> "xori",
     mask |-> OR(INSTR_OPCODE, INSTR_FUNCT3),
     required_bits |-> OR(OPCODE(<<0,0,1,0,0,1,1>>), FUNCT3(<<1,0,0>>)),
     links |-> "xori"],
    [name |-> "ori",
     mask |-> OR(INSTR_OPCODE, INSTR_FUNCT3),
     required_bits |-> OR(OPCODE(<<0,0,1,0,0,1,1>>), FUNCT3(<<1,1,0>>)),
     links |-> "ori"],
    [name |-> "andi",
     mask |-> OR(INSTR_OPCODE, INSTR_FUNCT3),
     required_bits |-> OR(OPCODE(<<0,0,1,0,0,1,1>>), FUNCT3(<<1,1,1>>)),
     links |-> "andi"],
    [name |-> "slli",
     mask |-> OR(OR(INSTR_OPCODE, INSTR_FUNCT3), BITSMASK(31, 26)),
     required_bits |-> OR(OR(OPCODE(<<0,0,1,0,0,1,1>>), FUNCT3(<<0,0,1>>)), FUNCT7(<<0,0,0,0,0,0,0>>)),
     links |-> "slli"],
    [name |-> "srli",
     mask |-> OR(OR(INSTR_OPCODE, INSTR_FUNCT3), BITSMASK(31, 26)),
     required_bits |-> OR(OR(OPCODE(<<0,0,1,0,0,1,1>>), FUNCT3(<<1,0,1>>)), FUNCT7(<<0,0,0,0,0,0,0>>)),
     links |-> "srli"],
    [name |-> "srai",
     mask |-> OR(OR(INSTR_OPCODE, INSTR_FUNCT3), BITSMASK(31, 26)),
     required_bits |-> OR(OR(OPCODE(<<0,0,1,0,0,1,1>>), FUNCT3(<<1,0,1>>)), FUNCT7(<<0,1,0,0,0,0,0>>)),
     links |-> "srai"],
    [name |-> "add",
     mask |-> OR(OR(INSTR_OPCODE, INSTR_FUNCT3), INSTR_FUNCT7),
     required_bits |-> OR(OR(OPCODE(<<0,1,1,0,0,1,1>>), FUNCT3(<<0,0,0>>)), FUNCT7(<<0,0,0,0,0,0,0>>)),
     links |-> "add"],
    [name |-> "sub",
     mask |-> OR(OR(INSTR_OPCODE, INSTR_FUNCT3), INSTR_FUNCT7),
     required_bits |-> OR(OR(OPCODE(<<0,1,1,0,0,1,1>>), FUNCT3(<<0,0,0>>)), FUNCT7(<<0,1,0,0,0,0,0>>)),
     links |-> "sub"],
    [name |-> "sll",
     mask |-> OR(OR(INSTR_OPCODE, INSTR_FUNCT3), INSTR_FUNCT7),
     required_bits |-> OR(OR(OPCODE(<<0,1,1,0,0,1,1>>), FUNCT3(<<0,0,1>>)), FUNCT7(<<0,0,0,0,0,0,0>>)),
     links |-> "sll"],
    [name |-> "srl",
     mask |-> OR(OR(INSTR_OPCODE, INSTR_FUNCT3), INSTR_FUNCT7),
     required_bits |-> OR(OR(OPCODE(<<0,1,1,0,0,1,1>>), FUNCT3(<<1,0,1>>)), FUNCT7(<<0,0,0,0,0,0,0>>)),
     links |-> "srl"],
    [name |-> "sra",
     mask |-> OR(OR(INSTR_OPCODE, INSTR_FUNCT3), INSTR_FUNCT7),
     required_bits |-> OR(OR(OPCODE(<<0,1,1,0,0,1,1>>), FUNCT3(<<1,0,1>>)), FUNCT7(<<0,1,0,0,0,0,0>>)),
     links |-> "sra"],
    [name |-> "ebreak",
     mask |-> OR(OR(OR(OR(OR(INSTR_OPCODE, INSTR_RD), INSTR_FUNCT3), INSTR_RS1), INSTR_RS2), INSTR_FUNCT7),
     required_bits |-> OR(OR(OR(OR(OR(OPCODE(<<1,1,1,0,0,1,1>>), RD(<<0,0,0,0,0>>)), FUNCT3(<<0,0,0>>)), RS1(<<0,0,0,0,0>>)), RS2(<<0,0,0,0,1>>)), FUNCT7(<<0,0,0,0,0,0,0>>)),
     links |-> "ebreak"],
    [name |-> "lw",
     mask |-> OR(INSTR_OPCODE, INSTR_FUNCT3),
     required_bits |-> OR(OPCODE(<<0,0,0,0,0,1,1>>), FUNCT3(<<0,1,0>>)),
     links |-> "lw"],
    [name |-> "sw",
     mask |-> OR(INSTR_OPCODE, INSTR_FUNCT3),
     required_bits |-> OR(OPCODE(<<0,1,0,0,0,1,1>>), FUNCT3(<<0,1,0>>)),
     links |-> "sw"],
    [name |-> "jal",
     mask |-> INSTR_OPCODE,
     required_bits |-> OPCODE(<<1,1,0,1,1,1,1>>),
     links |-> "jal"],
    [name |-> "jalr",
     mask |-> OR(INSTR_OPCODE, INSTR_FUNCT3),
     required_bits |-> OR(OPCODE(<<1,1,0,0,1,1,1>>), FUNCT3(<<0,0,0>>)),
     links |-> "jalr"],
    [name |-> "beq",
     mask |-> OR(INSTR_OPCODE, INSTR_FUNCT3),
     required_bits |-> OR(OPCODE(<<1,1,0,0,0,1,1>>), FUNCT3(<<0,0,0>>)),
     links |-> "beq"],
    [name |-> "bne",
     mask |-> OR(INSTR_OPCODE, INSTR_FUNCT3),
     required_bits |-> OR(OPCODE(<<1,1,0,0,0,1,1>>), FUNCT3(<<0,0,1>>)),
     links |-> "bne"],
    [name |-> "blt",
     mask |-> OR(INSTR_OPCODE, INSTR_FUNCT3),
     required_bits |-> OR(OPCODE(<<1,1,0,0,0,1,1>>), FUNCT3(<<1,0,0>>)),
     links |-> "blt"],
    [name |-> "bge",
     mask |-> OR(INSTR_OPCODE, INSTR_FUNCT3),
     required_bits |-> OR(OPCODE(<<1,1,0,0,0,1,1>>), FUNCT3(<<1,0,1>>)),
     links |-> "bge"],
    [name |-> "bltu",
     mask |-> OR(INSTR_OPCODE, INSTR_FUNCT3),
     required_bits |-> OR(OPCODE(<<1,1,0,0,0,1,1>>), FUNCT3(<<1,1,0>>)),
     links |-> "bltu"],
    [name |-> "bgeu",
     mask |-> OR(INSTR_OPCODE, INSTR_FUNCT3),
     required_bits |-> OR(OPCODE(<<1,1,0,0,0,1,1>>), FUNCT3(<<1,1,1>>)),
     links |-> "bgeu"],
    [name |-> "addiw",
     mask |-> OR(INSTR_OPCODE, INSTR_FUNCT3),
     required_bits |-> OR(OPCODE(<<0,0,1,1,0,1,1>>), FUNCT3(<<0,0,0>>)),
     links |-> "addiw"],
    [name |-> "addw",
     mask |-> OR(OR(INSTR_OPCODE, INSTR_FUNCT3), INSTR_FUNCT7),
     required_bits |-> OR(OR(OPCODE(<<0,1,1,1,0,1,1>>), FUNCT3(<<0,0,0>>)), FUNCT7(<<0,0,0,0,0,0,0>>)),
     links |-> "addw"],
    [name |-> "ld",
     mask |-> OR(INSTR_OPCODE, INSTR_FUNCT3),
     required_bits |-> OR(OPCODE(<<0,0,0,0,0,1,1>>), FUNCT3(<<0,1,1>>)),
     links |-> "ld"],
    [name |-> "sd",
     mask |-> OR(INSTR_OPCODE, INSTR_FUNCT3),
     required_bits |-> OR(OPCODE(<<0,1,0,0,0,1,1>>), FUNCT3(<<0,1,1>>)),
     links |-> "sd"] >>

rv64i_size == Len(rv64i_instructions)

\* a mul descriptor whose mask leaves out funct7: add words satisfy it too
rv64m_instructions_without_funct7 == <<
    [name |-> "mul",
     mask |-> OR(INSTR_OPCODE, INSTR_FUNCT3),
     required_bits |-> OPCODE(<<0,1,1,0,0,1,1>>),
     links |-> "mul"] >>

\* ---------- rv64m_instr.h: array of all implemented rv64m instruction types ----------

rv64m_instructions == <<
    [name |-> "mul",
     mask |-> OR(OR(INSTR_OPCODE, INSTR_FUNCT3), INSTR_FUNCT7),
     required_bits |-> OR(OR(OPCODE(<<0,1,1,0,0,1,1>>), FUNCT3(<<0,0,0>>)), FUNCT7(<<0,0,0,0,0,0,1>>)),
     links |-> "mul"] >>

rv64m_size == Len(rv64m_instructions)

\* ---------- riscv64.c: instruction definition functions ----------

\* A registry is [count, type_links]; a type link points at an entry of one of
\* the instruction arrays, [set |-> "rv64i" or "rv64m", i |-> its position].
\* The type_links pointer is NULL exactly when nothing has been allocated, and
\* that is the empty sequence here.
NULL == [set |-> "NULL", i |-> 0]

TypeArray(new_types) ==
    IF new_types = "rv64i" THEN rv64i_instructions ELSE rv64m_instructions

Deref(link) == TypeArray(link.set)[link.i]

\* registry_append: [registry, ret]; alloc_ok says whether malloc/realloc succeeds
registry_append(registry, new_types_count, new_types, alloc_ok) ==
    LET og_reg_count == registry.count
    IN  IF ~alloc_ok
        THEN [registry |-> registry, ret |-> 0]
        ELSE [registry |->
                 [count |-> og_reg_count + new_types_count,
                  type_links |->
                      [k \in 1..(og_reg_count + new_types_count) |->
                          IF k <= og_reg_count
                          THEN registry.type_links[k]
                          ELSE [set |-> new_types, i |-> k - og_reg_count]]],
              ret |-> new_types_count]

\* the match test of one descriptor
Matches(itype, instr) == AND(itype.mask, instr) = itype.required_bits

registry_search(registry, instr) ==
    LET RECURSIVE Loop(_)
        Loop(i) ==
            IF i > registry.count THEN NULL
            ELSE IF Matches(Deref(registry.type_links[i]), instr)
                 THEN registry.type_links[i]
                 ELSE Loop(i + 1)
    IN Loop(1)

\* ---------- riscv_config.h: configuration flags ----------

rc_nothing   == 0
rc_trace_log == 1

\* ---------- riscv64.c: CPU methods ----------

ZeroStats ==
    [instructions |-> 0, loads |-> 0, stores |-> 0, load_misses |-> 0, store_misses |-> 0]

\* the struct as calloc leaves it
ZeroCpu ==
    [is_running |-> 0, config |-> rc_nothing, stats |-> ZeroStats,
     instruction_set |-> [count |-> 0, type_links |-> <<>>],
     pc |-> {}, x |-> [i \in 0..(REGISTER_COUNT - 1) |-> {}]]

\* cpu_init on the struct of context c; alloc1, alloc2: the two allocations' outcomes
cpu_init(c, alloc1, alloc2) ==
    LET r1 == registry_append(c.cpu.instruction_set, rv64i_size, "rv64i", alloc1)
        r2 == registry_append(r1.registry, rv64m_size, "rv64m", alloc2)
    IN  [c EXCEPT !.cpu = [is_running |-> 0,
                           config |-> rc_nothing,
                           stats |-> ZeroStats,
                           instruction_set |-> r2.registry,
                           pc |-> {},
                           x |-> [i \in 0..(REGISTER_COUNT - 1) |-> {}]]]

cpu_process_signal(c, signal) ==
    IF signal = "rs_halt" THEN [c EXCEPT !.cpu.is_running = 0] ELSE c

\* the trace goes to the host whatever the configuration
cpu_log_trace(c) ==
    Call(c, [svc |-> "log_trace", step |-> c.cpu.stats.instructions,
             pc |-> c.cpu.pc, registers |-> c.cpu.x])

cpu_identify_instr(c, instr) ==
    LET itype == registry_search(c.cpu.instruction_set, instr)
    IN  IF itype = NULL THEN "NULL" ELSE Deref(itype).name

\* cpu_execute with the PC advanced past the ebreak it halts on
cpu_execute_ebreak_advances(c, instr) ==
    LET c1 == Call([c EXCEPT !.cpu.is_running = 1],
                   [svc |-> "mem_load_dword", address |-> c.cpu.pc])
    IN  IF instr = RV64I_EBREAK
        THEN [c |-> [c1 EXCEPT !.cpu.is_running = 0, !.cpu.pc = Add64(@, Dw(4))],
              ret |-> 0]
        ELSE LET itype == registry_search(c1.cpu.instruction_set, instr)
             IN  IF itype = NULL
                 THEN [c |-> [cpu_panic(c1, "Unrecognized instruction!")
                                 EXCEPT !.cpu.is_running = 0],
                       ret |-> 0]
                 ELSE LET c2 == execute(Deref(itype).links,
                                        [c1 EXCEPT !.updated_pc = 0], instr)
                      IN  [c |-> IF c2.updated_pc = 0
                                 THEN [c2 EXCEPT !.cpu.pc = Add64(@, Dw(4))]
                                 ELSE c2,
                           ret |-> 1]

\* cpu_execute: [c, ret]; instr is the dword the host returns for the load at pc
cpu_execute(c, instr) ==
    LET c1 == Call([c EXCEPT !.cpu.is_running = 1],
                   [svc |-> "mem_load_dword", address |-> c.cpu.pc])
    IN  IF instr = RV64I_EBREAK
        THEN [c |-> [c1 EXCEPT !.cpu.is_running = 0], ret |-> 0]
        ELSE LET itype == registry_search(c1.cpu.instruction_set, instr)
             IN  IF itype = NULL
                 THEN [c |-> [cpu_panic(c1, "Unrecognized instruction!")
                                 EXCEPT !.cpu.is_running = 0],
                       ret |-> 0]
                 ELSE LET c2 == execute(Deref(itype).links,
                                        [c1 EXCEPT !.updated_pc = 0], instr)
                      IN  [c |-> IF c2.updated_pc = 0
                                 THEN [c2 EXCEPT !.cpu.pc = Add64(@, Dw(4))]
                                 ELSE c2,
                           ret |-> 1]

\* ---------- rsk.c: the API facade ----------

rsk_init(c) ==
    Call([c EXCEPT !.cpu.is_running = 0,
                   !.cpu.x = [i \in 0..(REGISTER_COUNT - 1) |-> {}],
                   !.cpu.config = rc_nothing,
                   !.cpu.stats = ZeroStats],
         [svc |-> "log_msg", msg |-> "CPU initialized"])

rsk_config_set(c, flags) == [c EXCEPT !.cpu.config = flags]

\* index is an int
rsk_reg_get(c, index) ==
    IF index < 0 \/ index > 31 THEN DwordBits      \* return -1
    ELSE IF 0 = index THEN {}
    ELSE c.cpu.x[index]

rsk_reg_set(c, index, value) ==
    IF index < 1 \/ index > 31 THEN c
    ELSE [c EXCEPT !.cpu.x[index] = value]

rsk_pc_set(c, value) == [c EXCEPT !.cpu.pc = value]

rsk_cpu_signal(c, signal) ==
    IF signal = "rs_halt" THEN [c EXCEPT !.cpu.is_running = 0] ELSE c

\* rsk_cpu_run: [c, ret]; cycles is a non-negative int here
rsk_cpu_run(c, cycles) ==
    [c |-> [c EXCEPT !.cpu.stats.instructions = @ + cycles], ret |-> cycles]

\* ---------- the header-only revision ----------
\*
\* riscv64_cpu.h, riscv64_instr.h, rv64i_instr.h, the rv64m header that
\* includes riscv64_cpu.h, and the facade at the end of riscv64.h form an
\* earlier, header-only build of the same kernel.  Its definitions carry the
\* prefix h_ here; where that revision's text is the text of riscv64.c (the
\* mask macros, the field and immediate decoders) the definitions above are
\* used for both.
\*
\* c.junk is the value an indeterminate object holds: what a read beyond the
\* register array yields, and what a function that falls off its end (or
\* returns without a value) hands back when c.ub = 1.

\* the value of a dword in -2^30 .. 2^30 as an integer
SInt(d) == IF 63 \in d THEN 0 - (Val(NOT(d)) + 1) ELSE Val(d)

\* ---------- riscv64_cpu.h: register accessors (index is an int) ----------

h_cpu_read_register(c, index) ==
    LET c1 == IF 0 > index \/ index >= REGISTER_COUNT
              THEN Call(c, [svc |-> "panic", msg |-> "Register access out of bounds"])
              ELSE c
    IN  IF 0 = index THEN [c |-> c1, ret |-> {}]
        ELSE IF index \in 0..(REGISTER_COUNT - 1)
             THEN [c |-> c1, ret |-> c1.cpu.x[index]]
             ELSE [c |-> c1, ret |-> c1.junk]

\* the last statement, cpu->x[index] == value, compares and stores nothing;
\* c.handed keeps the index and value it was handed, which no code reads
h_cpu_write_register(c, index, value) ==
    LET c1 == IF 0 > index \/ index >= REGISTER_COUNT
              THEN Call(c, [svc |-> "panic", msg |-> "Register access out of bounds"])
              ELSE c
    IN  IF 0 = index THEN c1
        ELSE [c1 EXCEPT !.handed = Append(@, [index |-> index, value |-> value])]

\* ---------- riscv64_instr.h: shortcuts ----------

h_READ_REG(c, index) == h_cpu_read_register(c, index)
h_WRITE_REG(c, index, value) == h_cpu_write_register(c, index, value)

h_GET_PC(c) == c.cpu.pc
h_SET_PC(c, addr) == [c EXCEPT !.updated_pc = 1, !.cpu.pc = addr]

h_STORE_WORD(c, addr, value) ==
    Call(c, [svc |-> "mem_store_word", address |-> addr, value |-> ToWord(value)])
h_STORE_DWORD(c, addr, value) ==
    Call(c, [svc |-> "mem_store_dword", address |-> addr, value |-> value])
h_LOAD_DWORD(c, addr) ==
    [c |-> Call(c, [svc |-> "mem_load_dword", address |-> addr]), ret |-> c.host_dword]

\* ---------- rv64i_instr.h of the header-only revision: execution functions ----------
\* a register read of an index in 0..31 issues no call, so only its value is kept

h_exec_lui(c, instr) ==
    h_WRITE_REG(c, mask_instr_rd(instr), utype_imm(instr))

h_exec_addi(c, instr) ==
    h_WRITE_REG(c, mask_instr_rd(instr),
                Add64(h_READ_REG(c, mask_instr_rs1(instr)).ret, itype_imm(instr)))

h_exec_xori(c, instr) ==
    h_WRITE_REG(c, mask_instr_rd(instr),
                XOR(h_READ_REG(c, mask_instr_rs1(instr)).ret, itype_imm(instr)))

h_exec_ori(c, instr) ==
    h_WRITE_REG(c, mask_instr_rd(instr),
                OR(h_READ_REG(c, mask_instr_rs1(instr)).ret, itype_imm(instr)))

h_exec_andi(c, instr) ==
    h_WRITE_REG(c, mask_instr_rd(instr),
                AND(h_READ_REG(c, mask_instr_rs1(instr)).ret, itype_imm(instr)))

\* slli shifts right and srli shifts left in this revision
h_exec_slli(c, instr) ==
    h_WRITE_REG(c, mask_instr_rd(instr),
                ShrBy(c, h_READ_REG(c, mask_instr_rs1(instr)).ret, itype_imm(instr)))

h_exec_srli(c, instr) ==
    LET imm == SHR(AND(BITSMASK(25, 20), instr), 20)
    IN  h_WRITE_REG(c, mask_instr_rd(instr),
                    ShlBy(c, h_READ_REG(c, mask_instr_rs1(instr)).ret, imm))

h_exec_srai(c, instr) ==
    LET imm == SHR(AND(BITSMASK(25, 20), instr), 20)
    IN  h_WRITE_REG(c, mask_instr_rd(instr),
                    SarBy(c, h_READ_REG(c, mask_instr_rs1(instr)).ret, imm))

h_exec_add(c, instr) ==
    h_WRITE_REG(c, mask_instr_rd(instr),
                Add64(h_READ_REG(c, mask_instr_rs1(instr)).ret,
                      h_READ_REG(c, mask_instr_rs2(instr)).ret))

h_exec_sub(c, instr) ==
    h_WRITE_REG(c, mask_instr_rd(instr),
                Sub64(h_READ_REG(c, mask_instr_rs1(instr)).ret,
                      h_READ_REG(c, mask_instr_rs2(instr)).ret))

h_exec_sll(c, instr) ==
    h_WRITE_REG(c, mask_instr_rd(instr),
                ShlBy(c, h_READ_REG(c, mask_instr_rs1(instr)).ret,
                      h_READ_REG(c, mask_instr_rs2(instr)).ret))

h_exec_srl(c, instr) ==
    h_WRITE_REG(c, mask_instr_rd(instr),
                ShrBy(c, h_READ_REG(c, mask_instr_rs1(instr)).ret,
                      h_READ_REG(c, mask_instr_rs2(instr)).ret))

\* the cast is on the count: the shifted operand stays unsigned
h_exec_sra(c, instr) ==
    h_WRITE_REG(c, mask_instr_rd(instr),
                ShrBy(c, h_READ_REG(c, mask_instr_rs1(instr)).ret,
                      h_READ_REG(c, mask_instr_rs2(instr)).ret))

h_exec_ebreak(c, instr) == c

\* no load is issued
h_exec_lw(c, instr) ==
    h_WRITE_REG(c, mask_instr_rd(instr),
                Add64(h_READ_REG(c, mask_instr_rs1(instr)).ret, itype_imm(instr)))

h_exec_sw(c, instr) ==
    h_STORE_WORD(c, Add64(h_READ_REG(c, mask_instr_rs1(instr)).ret, stype_imm(instr)),
                 h_READ_REG(c, mask_instr_rs2(instr)).ret)

h_exec_jal(c, instr) ==
    LET c1 == h_WRITE_REG(c, mask_instr_rd(instr), Add64(h_GET_PC(c), Dw(4)))
    IN  h_SET_PC(c1, Add64(h_GET_PC(c1), jtype_imm(instr)))

h_exec_jalr(c, instr) ==
    LET t  == h_GET_PC(c)
        c1 == h_SET_PC(c, AND(Add64(h_READ_REG(c, mask_instr_rs1(instr)).ret,
                                    itype_imm(instr)),
                              NOT(Dw(1))))
    IN  h_WRITE_REG(c1, mask_instr_rd(instr), t)

h_exec_beq(c, instr) ==
    IF h_READ_REG(c, mask_instr_rs1(instr)).ret = h_READ_REG(c, mask_instr_rs2(instr)).ret
    THEN h_SET_PC(c, Add64(h_GET_PC(c), btype_imm(instr)))
    ELSE c

h_exec_bne(c, instr) ==
    IF h_READ_REG(c, mask_instr_rs1(instr)).ret # h_READ_REG(c, mask_instr_rs2(instr)).ret
    THEN h_SET_PC(c, Add64(h_GET_PC(c), btype_imm(instr)))
    ELSE c

\* the cast is on the index of rs1: dword < sdword compares unsigned
h_exec_blt(c, instr) ==
    IF ULT(h_READ_REG(c, mask_instr_rs1(instr)).ret,
           h_READ_REG(c, mask_instr_rs2(instr)).ret)
    THEN h_SET_PC(c, Add64(h_GET_PC(c), btype_imm(instr)))
    ELSE c

h_exec_bge(c, instr) ==
    IF ~ULT(h_READ_REG(c, mask_instr_rs1(instr)).ret,
            h_READ_REG(c, mask_instr_rs2(instr)).ret)
    THEN h_SET_PC(c, Add64(h_GET_PC(c), btype_imm(instr)))
    ELSE c

\* the comparison is inside the index: the register read is x0 or x1
h_exec_bltu(c, instr) ==
    LET index == IF ULT(Dw(mask_instr_rs1(instr)),
                        h_READ_REG(c, mask_instr_rs2(instr)).ret)
                 THEN 1 ELSE 0
    IN  IF h_READ_REG(c, index).ret # {}
        THEN h_SET_PC(c, Add64(h_GET_PC(c), btype_imm(instr)))
        ELSE c

h_exec_bgeu(c, instr) ==
    IF ~ULT(h_READ_REG(c, mask_instr_rs1(instr)).ret,
            h_READ_REG(c, mask_instr_rs2(instr)).ret)
    THEN h_SET_PC(c, Add64(h_GET_PC(c), btype_imm(instr)))
    ELSE c

h_exec_addiw(c, instr) ==
    h_WRITE_REG(c, mask_instr_rd(instr),
                SAR(SHL(Add64(h_READ_REG(c, mask_instr_rs1(instr)).ret,
                              itype_imm(instr)), 32), 32))

\* the immediate is added to the index of rs1, not to its value
h_exec_ld(c, instr) ==
    LET rd == h_READ_REG(c, mask_instr_rs1(instr) + SInt(itype_imm(instr)))
        ld == h_LOAD_DWORD(rd.c, rd.ret)
    IN  h_WRITE_REG(ld.c, mask_instr_rd(instr), ld.ret)

h_exec_sd(c, instr) ==
    h_STORE_DWORD(c, Add64(h_READ_REG(c, mask_instr_rs1(instr)).ret, stype_imm(instr)),
                  h_READ_REG(c, mask_instr_rs2(instr)).ret)

\* the rv64m header of this revision: mul multiplies the two register indices
h_exec_mul(c, instr) ==
    h_WRITE_REG(c, mask_instr_rd(instr),
                Dw(mask_instr_rs1(instr) * mask_instr_rs2(instr)))

\* INSTR_LINKS(name) of the header-only revision
h_execute(links, c, instr) ==
    CASE links = "lui"    -> h_exec_lui(c, instr)
      [] links = "addi"   -> h_exec_addi(c, instr)
      [] links = "xori"   -> h_exec_xori(c, instr)
      [] links = "ori"    -> h_exec_ori(c, instr)
      [] links = "andi"   -> h_exec_andi(c, instr)
      [] links = "slli"   -> h_exec_slli(c, instr)
      [] links = "srli"   -> h_exec_srli(c, instr)
      [] links = "srai"   -> h_exec_srai(c, instr)
      [] links = "add"    -> h_exec_add(c, instr)
      [] links = "sub"    -> h_exec_sub(c, instr)
      [] links = "sll"    -> h_exec_sll(c, instr)
      [] links = "srl"    -> h_exec_srl(c, instr)
      [] links = "sra"    -> h_exec_sra(c, instr)
      [] links = "ebreak" -> h_exec_ebreak(c, instr)
      [] links = "lw"     -> h_exec_lw(c, instr)
      [] links = "sw"     -> h_exec_sw(c, instr)
      [] links = "jal"    -> h_exec_jal(c, instr)
      [] links = "jalr"   -> h_exec_jalr(c, instr)
      [] links = "beq"    -> h_exec_beq(c, instr)
      [] links = "bne"    -> h_exec_bne(c, instr)
      [] links = "blt"    -> h_exec_blt(c, instr)
      [] links = "bge"    -> h_exec_bge(c, instr)
      [] links = "bltu"   -> h_exec_bltu(c, instr)
      [] links = "bgeu"   -> h_exec_bgeu(c, instr)
      [] links = "addiw"  -> h_exec_addiw(c, instr)
      [] links = "ld"     -> h_exec_ld(c, instr)
      [] links = "sd"     -> h_exec_sd(c, instr)
      [] links = "mul"    -> h_exec_mul(c, instr)

\* rv64i_instr.h of the header-only revision: the descriptors have no name;
\* the xori descriptor links addi, the sll descriptor links sub, there is no
\* lw descriptor, and the ld descriptor requires opcode 0000000
h_rv64i_instructions == <<
    [mask |-> INSTR_OPCODE,
     required_bits |-> OPCODE(<<0,1,1,0,1,1,1>>),
     links |-> "lui"],
    [mask |-> OR(INSTR_OPCODE, INSTR_FUNCT3),
     required_bits |-> OR(OPCODE(<<0,0,1,0,0,1,1>>), FUNCT3(<<0,0,0>>)),
     links |-> "addi"],
    [mask |-> OR(INSTR_OPCODE, INSTR_FUNCT3),
     required_bits |-> OR(OPCODE(<<0,0,1,0,0,1,1>>), FUNCT3(<<1,0,0>>)),
     links |-> "addi"],
    [mask |-> OR(INSTR_OPCODE, INSTR_FUNCT3),
     required_bits |-> OR(OPCODE(<<0,0,1,0,0,1,1>>), FUNCT3(<<1,1,0>>)),
     links |-> "ori"],
    [mask |-> OR(INSTR_OPCODE, INSTR_FUNCT3),
     required_bits |-> OR(OPCODE(<<0,0,1,0,0,1,1>>), FUNCT3(<<1,1,1>>)),
     links |-> "andi"],
    [mask |-> OR(OR(INSTR_OPCODE, INSTR_FUNCT3), BITSMASK(31, 26)),
     required_bits |-> OR(OR(OPCODE(<<0,0,1,0,0,1,1>>), FUNCT3(<<0,0,1>>)), FUNCT7(<<0,0,0,0,0,0,0>>)),
     links |-> "slli"],
    [mask |-> OR(OR(INSTR_OPCODE, INSTR_FUNCT3), BITSMASK(31, 26)),
     required_bits |-> OR(OR(OPCODE(<<0,0,1,0,0,1,1>>), FUNCT3(<<1,0,1>>)), FUNCT7(<<0,0,0,0,0,0,0>>)),
     links |-> "srli"],
    [mask |-> OR(OR(INSTR_OPCODE, INSTR_FUNCT3), BITSMASK(31, 26)),
     required_bits |-> OR(OR(OPCODE(<<0,0,1,0,0,1,1>>), FUNCT3(<<1,0,1>>)), FUNCT7(<<0,1,0,0,0,0,0>>)),
     links |-> "srai"],
    [mask |-> OR(OR(INSTR_OPCODE, INSTR_FUNCT3), INSTR_FUNCT7),
     required_bits |-> OR(OR(OPCODE(<<0,1,1,0,0,1,1>>), FUNCT3(<<0,0,0>>)), FUNCT7(<<0,0,0,0,0,0,0>>)),
     links |-> "add"],
    [mask |-> OR(OR(INSTR_OPCODE, INSTR_FUNCT3), INSTR_FUNCT7),
     required_bits |-> OR(OR(OPCODE(<<0,1,1,0,0,1,1>>), FUNCT3(<<0,0,0>>)), FUNCT7(<<0,1,0,0,0,0,0>>)),
     links |-> "sub"],
    [mask |-> OR(OR(INSTR_OPCODE, INSTR_FUNCT3), INSTR_FUNCT7),
     required_bits |-> OR(OR(OPCODE(<<0,1,1,0,0,1,1>>), FUNCT3(<<0,0,1>>)), FUNCT7(<<0,0,0,0,0,0,0>>)),
     links |-> "sub"],
    [mask |-> OR(OR(INSTR_OPCODE, INSTR_FUNCT3), INSTR_FUNCT7),
     required_bits |-> OR(OR(OPCODE(<<0,1,1,0,0,1,1>>), FUNCT3(<<1,0,1>>)), FUNCT7(<<0,0,0,0,0,0,0>>)),
     links |-> "srl"],
    [mask |-> OR(OR(INSTR_OPCODE, INSTR_FUNCT3), INSTR_FUNCT7),
     required_bits |-> OR(OR(OPCODE(<<0,1,1,0,0,1,1>>), FUNCT3(<<1,0,1>>)), FUNCT7(<<0,1,0,0,0,0,0>>)),
     links |-> "sra"],
    [mask |-> OR(OR(OR(OR(OR(INSTR_OPCODE, INSTR_RD), INSTR_FUNCT3), INSTR_RS1), INSTR_RS2), INSTR_FUNCT7),
     required_bits |-> OR(OR(OR(OR(OR(OPCODE(<<1,1,1,0,0,1,1>>), RD(<<0,0,0,0,0>>)), FUNCT3(<<0,0,0>>)), RS1(<<0,0,0,0,0>>)), RS2(<<0,0,0,0,1>>)), FUNCT7(<<0,0,0,0,0,0,0>>)),
     links |-> "ebreak"],
    [mask |-> OR(INSTR_OPCODE, INSTR_FUNCT3),
     required_bits |-> OR(OPCODE(<<0,1,0,0,0,1,1>>), FUNCT3(<<0,1,0>>)),
     links |-> "sw"],
    [mask |-> INSTR_OPCODE,
     required_bits |-> OPCODE(<<1,1,0,1,1,1,1>>),
     links |-> "jal"],
    [mask |-> OR(INSTR_OPCODE, INSTR_FUNCT3),
     required_bits |-> OR(OPCODE(<<1,1,0,0,1,1,1>>), FUNCT3(<<0,0,0>>)),
     links |-> "jalr"],
    [mask |-> OR(INSTR_OPCODE, INSTR_FUNCT3),
     required_bits |-> OR(OPCODE(<<1,1,0,0,0,1,1>>), FUNCT3(<<0,0,0>>)),
     links |-> "beq"],
    [mask |-> OR(INSTR_OPCODE, INSTR_FUNCT3),
     required_bits |-> OR(OPCODE(<<1,1,0,0,0,1,1>>), FUNCT3(<<0,0,1>>)),
     links |-> "bne"],
    [mask |-> OR(INSTR_OPCODE, INSTR_FUNCT3),
     required_bits |-> OR(OPCODE(<<1,1,0,0,0,1,1>>), FUNCT3(<<1,0,0>>)),
     links |-> "blt"],
    [mask |-> OR(INSTR_OPCODE, INSTR_FUNCT3),
     required_bits |-> OR(OPCODE(<<1,1,0,0,0,1,1>>), FUNCT3(<<1,0,1>>)),
     links |-> "bge"],
    [mask |-> OR(INSTR_OPCODE, INSTR_FUNCT3),
     required_bits |-> OR(OPCODE(<<1,1,0,0,0,1,1>>), FUNCT3(<<1,1,0>>)),
     links |-> "bltu"],
    [mask |-> OR(INSTR_OPCODE, INSTR_FUNCT3),
     required_bits |-> OR(OPCODE(<<1,1,0,0,0,1,1>>), FUNCT3(<<1,1,1>>)),
     links |-> "bgeu"],
    [mask |-> OR(INSTR_OPCODE, INSTR_FUNCT3),
     required_bits |-> OR(OPCODE(<<0,0,1,1,0,1,1>>), FUNCT3(<<0,0,0>>)),
     links |-> "addiw"],
    [mask |-> OR(INSTR_OPCODE, INSTR_FUNCT3),
     required_bits |-> OR(OPCODE(<<0,0,0,0,0,0,0>>), FUNCT3(<<0,1,1>>)),
     links |-> "ld"],
    [mask |-> OR(INSTR_OPCODE, INSTR_FUNCT3),
     required_bits |-> OR(OPCODE(<<0,1,0,0,0,1,1>>), FUNCT3(<<0,1,1>>)),
     links |-> "sd"] >>

h_rv64i_size == Len(h_rv64i_instructions)

h_rv64m_instructions == <<
    [mask |-> OR(OR(INSTR_OPCODE, INSTR_FUNCT3), INSTR_FUNCT7),
     required_bits |-> OR(OR(OPCODE(<<0,1,1,0,0,1,1>>), FUNCT3(<<0,0,0>>)), FUNCT7(<<0,0,0,0,0,0,1>>)),
     links |-> "mul"] >>

h_rv64m_size == Len(h_rv64m_instructions)

\* ---------- riscv64_instr.h: instruction definition functions ----------

h_Deref(link) ==
    IF link.set = "rv64i" THEN h_rv64i_instructions[link.i] ELSE h_rv64m_instructions[link.i]

\* the text of registry_append is that of riscv64.c
h_registry_append(registry, new_types_count, new_types, alloc_ok) ==
    registry_append(registry, new_types_count, new_types, alloc_ok)

\* itype->mask & instr == itype->required_bits: == binds tighter than &, so
\* the mask is and-ed with the 0 or 1 of the comparison
h_Matches(itype, instr) ==
    AND(itype.mask, IF instr = itype.required_bits THEN Dw(1) ELSE {}) # {}

h_registry_search(registry, instr) ==
    LET RECURSIVE Loop(_)
        Loop(i) ==
            IF i > registry.count THEN NULL
            ELSE IF h_Matches(h_Deref(registry.type_links[i]), instr)
                 THEN registry.type_links[i]
                 ELSE Loop(i + 1)
    IN Loop(1)

\* ---------- riscv64_cpu.h: CPU methods ----------

\* cpu_init leaves instruction_set as it finds it and appends to it
h_cpu_init(c) ==
    LET r1 == h_registry_append(c.cpu.instruction_set, h_rv64i_size, "rv64i", TRUE)
        r2 == h_registry_append(r1.registry, h_rv64m_size, "rv64m", TRUE)
    IN  [c EXCEPT !.cpu = [is_running |-> 0,
                           config |-> rc_nothing,
                           stats |-> ZeroStats,
                           instruction_set |-> r2.registry,
                           pc |-> {},
                           x |-> [i \in 0..(REGISTER_COUNT - 1) |-> {}]]]

\* cpu_execute: [c, ret]; the unrecognised path panics and returns without a
\* value, leaving is_running at 1: the caller sees 0 or 1 (c.ub)
h_cpu_execute(c, instr) ==
    LET c1 == Call([c EXCEPT !.cpu.is_running = 1],
                   [svc |-> "mem_load_dword", address |-> c.cpu.pc])
    IN  IF instr = RV64I_EBREAK
        THEN [c |-> [c1 EXCEPT !.cpu.is_running = 0], ret |-> 0]
        ELSE LET itype == h_registry_search(c1.cpu.instruction_set, instr)
             IN  IF itype = NULL
                 THEN [c |-> Call(c1, [svc |-> "panic", msg |-> "Unrecognized instruction!"]),
                       ret |-> c1.ub]
                 ELSE LET c2 == h_execute(h_Deref(itype).links,
                                          [c1 EXCEPT !.updated_pc = 0], instr)
                      IN  [c |-> IF c2.updated_pc = 0
                                 THEN [c2 EXCEPT !.cpu.pc = Add64(@, Dw(4))]
                                 ELSE c2,
                           ret |-> 1]

\* ---------- riscv64.h: the API facade of the header-only revision ----------

h_rsk_init(c) ==
    Call(h_cpu_init(c), [svc |-> "log_msg", msg |-> "CPU initialized"])

\* rsk_reg_get has no return statement: the caller sees what cpu_read_register
\* left in the return register (c.ub = 0) or anything else (c.ub = 1)
h_rsk_reg_get(c, index) ==
    LET r == h_cpu_read_register(c, index)
    IN  [c |-> r.c, ret |-> IF c.ub = 0 THEN r.ret ELSE c.junk]

h_rsk_reg_set(c, index, value) == h_cpu_write_register(c, index, value)

h_rsk_pc_set(c, value) == [c EXCEPT !.cpu.pc = value]

h_rsk_cpu_run(c, cycles) ==
    [c |-> [c EXCEPT !.cpu.stats.instructions = @ + cycles], ret |-> cycles]

\* ---------- riscv64_testing.h: immediate encoding functions ----------

\* the argument is a sword: the conversion keeps the low 32 bits, and the
\* operators widen it back to 64 bits with its sign; the result is a word
Sword(value) == SextWord(ToWord(value))

itype_immediate(value) == ToWord(SHL(Sword(value), 20))

stype_immediate(value) ==
    ToWord(OR(SHL(AND(BITSMASK(11, 5), Sword(value)), 20),
              SHL(AND(BITSMASK(4, 0), Sword(value)), 6)))

btype_immediate(value) ==
    ToWord(OR(OR(AND(INSTR_SIGN, Sword(value)),
                 SHR(AND(BITMASK(11), Sword(value)), 4)),
              OR(SHL(AND(BITSMASK(10, 5), Sword(value)), 20),
                 SHL(AND(BITSMASK(4, 1), Sword(value)), 7))))

utype_immediate(value) == ToWord(AND(BITSMASK(31, 12), Sword(value)))

jtype_immediate(value) ==
    ToWord(OR(OR(AND(INSTR_SIGN, Sword(value)),
                 AND(BITSMASK(19, 12), Sword(value))),
              OR(SHL(AND(BITMASK(11), Sword(value)), 9),
                 SHL(AND(BITSMASK(10, 1), Sword(value)), 20))))

\* the decoder and the encoder of a format
decode(F, instr) ==
    CASE F = "I" -> itype_imm(instr)
      [] F = "S" -> stype_imm(instr)
      [] F = "B" -> btype_imm(instr)
      [] F = "U" -> utype_imm(instr)
      [] F = "J" -> jtype_imm(instr)

encode(F, value) ==
    CASE F = "I" -> itype_immediate(value)
      [] F = "S" -> stype_immediate(value)
      [] F = "B" -> btype_immediate(value)
      [] F = "U" -> utype_immediate(value)
      [] F = "J" -> jtype_immediate(value)

\* ---------- bounds and input sets of the model ----------

\* calls that change the struct (writes, inits, runs, steps) in one behaviour of Spec
MaxCalls == 2
\* cpu_execute calls in one behaviour of SpecExec
MaxExecSteps == 1
\* the largest cycles argument of rsk_cpu_run
MaxCycles == 2
\* direct registry_append calls in one behaviour of SpecDecode
MaxAppends == 1

\* 64-bit values: 0, 1, -1, 0x8000000000000010
Values == {{}, Dw(1), DwordBits, {4, 63}}
\* the values written through the register API
WrittenValues == {{}, DwordBits, {4, 63}}

\* program counters: 0, 0x1000, 0xFFFFFFFFFFFFFFFC
PcValues == {{}, {12}, 2..63}
\* the program counters written through the API
WrittenPcValues == {{12}, 2..63}

\* register indices passed to the byte-indexed core accessors
ByteIndices == {0, 1, 31, 32, 255}
\* register indices passed to the int-indexed facade
IntIndices == {-1, 0, 1, 31, 32, 256}

\* what the host's load services return to lw and ld
HostWords == {{}, {0, 31}}
HostDwords == {{}, {0, 31, 63}}

\* the bits lo..hi of v, moved so that bit lo lands on bit to
Move(v, hi, lo, to) == {i - lo + to : i \in v \cap (lo..hi)}

\* -n as a dword
Neg(n) == Sub64({}, Dw(n))

\* register fields
X0 == <<0,0,0,0,0>>
X1 == <<0,0,0,0,1>>
X31 == <<1,1,1,1,1>>

\* the instruction words of the six formats, assembled per the RISC-V manual
AsmR(f7, rs2, rs1, f3, rd, op) ==
    FUNCT7(f7) \cup RS2(rs2) \cup RS1(rs1) \cup FUNCT3(f3) \cup RD(rd) \cup OPCODE(op)
AsmI(imm, rs1, f3, rd, op) ==
    Move(imm, 11, 0, 20) \cup RS1(rs1) \cup FUNCT3(f3) \cup RD(rd) \cup OPCODE(op)
AsmS(imm, rs2, rs1, f3, op) ==
    Move(imm, 11, 5, 25) \cup Move(imm, 4, 0, 7)
        \cup RS2(rs2) \cup RS1(rs1) \cup FUNCT3(f3) \cup OPCODE(op)
AsmB(imm, rs2, rs1, f3, op) ==
    Move(imm, 12, 12, 31) \cup Move(imm, 10, 5, 25) \cup Move(imm, 4, 1, 8)
        \cup Move(imm, 11, 11, 7)
        \cup RS2(rs2) \cup RS1(rs1) \cup FUNCT3(f3) \cup OPCODE(op)
AsmU(imm, rd, op) == Move(imm, 31, 12, 12) \cup RD(rd) \cup OPCODE(op)
AsmJ(imm, rd, op) ==
    Move(imm, 20, 20, 31) \cup Move(imm, 10, 1, 21) \cup Move(imm, 11, 11, 20)
        \cup Move(imm, 19, 12, 12) \cup RD(rd) \cup OPCODE(op)

OP_IMM    == <<0,0,1,0,0,1,1>>
OP_REG    == <<0,1,1,0,0,1,1>>
OP_BRANCH == <<1,1,0,0,0,1,1>>
OP_LOAD   == <<0,0,0,0,0,1,1>>
OP_STORE  == <<0,1,0,0,0,1,1>>

BranchFunct3 == {<<0,0,0>>, <<0,0,1>>, <<1,0,0>>, <<1,0,1>>, <<1,1,0>>, <<1,1,1>>}

\* branch offsets: +8, -8, -4096, +4094
BranchOffsets == {Dw(8), Neg(8)}
BranchWords ==
    {AsmB(imm, X31, X1, f3, OP_BRANCH) : imm \in BranchOffsets, f3 \in BranchFunct3}
        \cup {AsmB(Neg(4096), X0, X0, <<0,0,0>>, OP_BRANCH),
              AsmB(Dw(4094), X1, X0, <<1,1,1>>, OP_BRANCH)}

\* jal x1, +8; jal x1, -8; jal x0, -1048576; jal x31, +1048574
JalWords ==
    {AsmJ(Dw(8), X1, <<1,1,0,1,1,1,1>>), AsmJ(Neg(8), X1, <<1,1,0,1,1,1,1>>),
     AsmJ(Neg(1048576), X0, <<1,1,0,1,1,1,1>>),
     AsmJ(Dw(1048574), X31, <<1,1,0,1,1,1,1>>)}

ImmWords ==
    {AsmU({12, 31}, X1, <<0,1,1,0,1,1,1>>),           \* lui x1, 0x80001
     AsmU({12}, X0, <<0,1,1,0,1,1,1>>),               \* lui x0, 0x1
     AsmI(Dw(724), X0, <<0,0,0>>, X1, OP_IMM),        \* addi x1, x0, 724
     AsmI(Neg(1), X0, <<0,0,0>>, X31, OP_IMM),         \* addi x31, x0, -1
     AsmI(Dw(1), X1, <<0,0,0>>, X0, OP_IMM),          \* addi x0, x1, 1
     AsmI(Neg(86), X31, <<1,0,0>>, X1, OP_IMM),        \* xori x1, x31, -86
     AsmI(Dw(85), X31, <<1,1,0>>, X1, OP_IMM),         \* ori x1, x31, 85
     AsmI(Dw(27), X31, <<1,1,1>>, X1, OP_IMM),         \* andi x1, x31, 27
     AsmI(Dw(33), X31, <<0,0,1>>, X1, OP_IMM),         \* slli x1, x31, 33
     AsmI(Dw(33), X31, <<1,0,1>>, X1, OP_IMM),         \* srli x1, x31, 33
     AsmI({0, 5, 10}, X31, <<1,0,1>>, X1, OP_IMM),     \* srai x1, x31, 33
     AsmI({}, X31, <<0,0,1>>, X1, OP_IMM),             \* slli x1, x31, 0
     AsmI(Dw(63), X31, <<0,0,1>>, X1, OP_IMM),         \* slli x1, x31, 63
     AsmI(Dw(1), X31, <<1,0,1>>, X1, OP_IMM),          \* srli x1, x31, 1
     AsmI(Dw(63), X31, <<1,0,1>>, X1, OP_IMM),         \* srli x1, x31, 63
     AsmI({10}, X31, <<1,0,1>>, X1, OP_IMM),           \* srai x1, x31, 0
     AsmI({0, 1, 2, 3, 4, 5, 10}, X31, <<1,0,1>>, X1, OP_IMM),   \* srai x1, x31, 63
     AsmI(Neg(95), X31, <<0,0,0>>, X1, <<0,0,1,1,0,1,1>>),   \* addiw x1, x31, -95
     AsmI(Dw(3), X31, <<0,0,0>>, X1, <<1,1,0,0,1,1,1>>),     \* jalr x1, x31, 3
     AsmI(Neg(4), X1, <<0,0,0>>, X1, <<1,1,0,0,1,1,1>>)}    \* jalr x1, x1, -4

RegWords ==
    {AsmR(<<0,0,0,0,0,0,0>>, X31, X1, <<0,0,0>>, X1, OP_REG),   \* add x1, x1, x31
     AsmR(<<0,0,0,0,0,0,0>>, X31, X1, <<0,0,0>>, X0, OP_REG),   \* add x0, x1, x31
     AsmR(<<0,1,0,0,0,0,0>>, X31, X1, <<0,0,0>>, X1, OP_REG),   \* sub x1, x1, x31
     AsmR(<<0,0,0,0,0,0,0>>, X31, X1, <<0,0,1>>, X1, OP_REG),   \* sll x1, x1, x31
     AsmR(<<0,0,0,0,0,0,0>>, X31, X1, <<1,0,1>>, X1, OP_REG),   \* srl x1, x1, x31
     AsmR(<<0,1,0,0,0,0,0>>, X31, X1, <<1,0,1>>, X1, OP_REG),   \* sra x1, x1, x31
     AsmR(<<0,0,0,0,0,0,0>>, X31, X1, <<0,0,0>>, X1, <<0,1,1,1,0,1,1>>),  \* addw x1, x1, x31
     AsmR(<<0,0,0,0,0,0,1>>, X31, X1, <<0,0,0>>, X1, OP_REG)}   \* mul x1, x1, x31

MemWords ==
    {AsmI(Neg(4), X31, <<0,1,0>>, X1, OP_LOAD),        \* lw x1, -4(x31)
     AsmI(Dw(8), X31, <<0,1,1>>, X1, OP_LOAD),         \* ld x1, 8(x31)
     AsmS(Neg(4), X1, X31, <<0,1,0>>, OP_STORE),       \* sw x1, -4(x31)
     AsmS(Dw(1), X1, X31, <<0,1,1>>, OP_STORE)}        \* sd x1, 1(x31)

\* ebreak with the upper half of the loaded dword clear and set
EbreakWords == {RV64I_EBREAK, RV64I_EBREAK \cup {32}}

\* words of no implemented instruction: 0, 0xFFFFFFFF, ecall, auipc x1, 0
UnknownWords ==
    {{}, WordBits, OPCODE(<<1,1,1,0,0,1,1>>), AsmU({}, X1, <<0,0,1,0,1,1,1>>)}

\* loaded dwords whose upper half is not clear: addi x1, x0, 724 with bit 32,
\* jal x1, -8 with bit 63, beq x1, x31, 8 with bits 32..63
UpperHalfWords ==
    {AsmI(Dw(724), X0, <<0,0,0>>, X1, OP_IMM) \cup {32},
     AsmJ(Neg(8), X1, <<1,1,0,1,1,1,1>>) \cup {63},
     AsmB(Dw(8), X31, X1, <<0,0,0>>, OP_BRANCH) \cup (32..63)}

\* the dwords the host returns for the load at pc
InstrWords ==
    BranchWords \cup JalWords \cup ImmWords \cup RegWords \cup MemWords
        \cup EbreakWords \cup UnknownWords \cup UpperHalfWords

\* the words of a short program: some of each kind
ProgramWords ==
    {AsmI(Dw(724), X0, <<0,0,0>>, X1, OP_IMM),        \* addi x1, x0, 724
     AsmI(Dw(1), X1, <<0,0,0>>, X0, OP_IMM),          \* addi x0, x1, 1
     AsmU({12}, X0, <<0,1,1,0,1,1,1>>),               \* lui x0, 0x1
     AsmJ(Neg(8), X1, <<1,1,0,1,1,1,1>>),             \* jal x1, -8
     AsmJ(Neg(1048576), X0, <<1,1,0,1,1,1,1>>),       \* jal x0, -1048576
     AsmB(Dw(8), X31, X1, <<0,0,0>>, OP_BRANCH),      \* beq x1, x31, 8
     AsmI(Neg(4), X31, <<0,1,0>>, X0, OP_LOAD),       \* lw x0, -4(x31)
     AsmI(Neg(4), X31, <<0,1,0>>, X1, OP_LOAD),       \* lw x1, -4(x31)
     AsmS(Neg(4), X1, X31, <<0,1,0>>, OP_STORE)}      \* sw x1, -4(x31)
        \cup EbreakWords \cup UnknownWords

\* the words whose execution asks the host for a word, for a dword
LoadWordWords  == {w \in InstrWords \cup ProgramWords :
                      AND(w, BITSMASK(14, 12) \cup BITSMASK(6, 0)) = {0, 1, 13}}
LoadDwordWords == {w \in InstrWords \cup ProgramWords :
                      AND(w, BITSMASK(14, 12) \cup BITSMASK(6, 0)) = {0, 1, 12, 13}}
\* the words that shift by the value of a register
RegShiftWords  == {w \in InstrWords \cup ProgramWords :
                      AND(w, BITSMASK(13, 12) \cup BITSMASK(6, 0)) = {0, 1, 4, 5, 12}}

HostWordsFor(instr)  == IF instr \in LoadWordWords THEN HostWords ELSE {{}}
HostDwordsFor(instr) == IF instr \in LoadDwordWords THEN HostDwords ELSE {{}}
UbFor(instr)         == IF instr \in RegShiftWords THEN {0, 1} ELSE {0}

\* ---------- the simulator as a state machine ----------

\* cpu:   the CPU struct (riscv_cpu_t); the facade of rsk.c and the core of
\*        riscv64.c are modelled on the one struct
\* calls: the host service calls the last API call issued, in order
\* last:  the last API call: its name, arguments, results and the struct before it
\* used:  how many of the bounded calls the behaviour has made
VARIABLES cpu, calls, last, used

vars == <<cpu, calls, last, used>>

\* the context of an API call on struct s; host_word, host_dword: what the
\* host's loads return; ub: the outcome of an undefined shift
Ctx(s, host_word, host_dword, ub) ==
    [cpu |-> s, calls |-> <<>>, updated_pc |-> 0, loaded |-> 0,
     host_word |-> host_word, host_dword |-> host_dword, ub |-> ub, junk |-> {},
     handed |-> <<>>]

Plain(s) == Ctx(s, {}, {}, 0)

\* cpu_init(NULL, services) with calloc and both registry allocations succeeding
FreshCpu == cpu_init(Plain(ZeroCpu), TRUE, TRUE).cpu

\* the record of an API call made in the current state
Record(op, idx, val, instr, ret, n, name, link) ==
    [op |-> op, idx |-> idx, val |-> val, instr |-> instr, pre |-> cpu,
     ret |-> ret, n |-> n, name |-> name, link |-> link]

Constructed ==
    /\ calls = <<>>
    /\ last = [op |-> "construct", idx |-> 0, val |-> {}, instr |-> {},
               pre |-> ZeroCpu, ret |-> {}, n |-> 0, name |-> "", link |-> NULL]
    /\ used = 0

Init == cpu = FreshCpu /\ Constructed

\* the result c of an API call becomes the state
Becomes(c) == cpu' = c.cpu /\ calls' = c.calls

\* the calls that only look: they leave the struct and the budget as they are,
\* so the state after one of them is the same whether or not others came
\* before it, and each is taken without another of them before it
Queries ==
    {"cpu_read_register", "rsk_reg_get", "cpu_identify_instr", "decode", "registry_search",
     "cpu_log_trace", "cpu_disassemble_instr"}

call_cpu_init ==
    /\ used < MaxCalls
    /\ Becomes(cpu_init(Plain(cpu), TRUE, TRUE))
    /\ last' = Record("cpu_init", 0, {}, {}, {}, 0, "", NULL)
    /\ used' = used + 1

call_rsk_init ==
    /\ used < MaxCalls
    /\ Becomes(rsk_init(Plain(cpu)))
    /\ last' = Record("rsk_init", 0, {}, {}, {}, 0, "", NULL)
    /\ used' = used + 1

call_cpu_write_register ==
    \E index \in ByteIndices, value \in WrittenValues :
        /\ used < MaxCalls
        /\ Becomes(cpu_write_register(Plain(cpu), index, value))
        /\ last' = Record("cpu_write_register", index, value, {}, {}, 0, "", NULL)
        /\ used' = used + 1

call_cpu_read_register ==
    \E index \in ByteIndices :
        LET r == cpu_read_register(Plain(cpu), index)
        IN  /\ last.op \notin Queries
            /\ Becomes(r.c)
            /\ last' = Record("cpu_read_register", index, {}, {}, r.ret, 0, "", NULL)
            /\ UNCHANGED used

call_rsk_reg_set ==
    \E index \in IntIndices, value \in WrittenValues :
        /\ used < MaxCalls
        /\ Becomes(rsk_reg_set(Plain(cpu), index, value))
        /\ last' = Record("rsk_reg_set", index, value, {}, {}, 0, "", NULL)
        /\ used' = used + 1

call_rsk_reg_get ==
    \E index \in IntIndices :
        /\ last.op \notin Queries
        /\ Becomes(Plain(cpu))
        /\ last' = Record("rsk_reg_get", index, {}, {},
                          rsk_reg_get(Plain(cpu), index), 0, "", NULL)
        /\ UNCHANGED used

call_cpu_set_pc ==
    \E address \in WrittenPcValues :
        /\ used < MaxCalls
        /\ Becomes(cpu_set_pc(Plain(cpu), address))
        /\ last' = Record("cpu_set_pc", 0, address, {}, {}, 0, "", NULL)
        /\ used' = used + 1

call_rsk_pc_set ==
    \E value \in WrittenPcValues :
        /\ used < MaxCalls
        /\ Becomes(rsk_pc_set(Plain(cpu), value))
        /\ last' = Record("rsk_pc_set", 0, value, {}, {}, 0, "", NULL)
        /\ used' = used + 1

call_rsk_config_set ==
    \E flags \in {rc_nothing, rc_trace_log} :
        /\ used < MaxCalls
        /\ Becomes(rsk_config_set(Plain(cpu), flags))
        /\ last' = Record("rsk_config_set", flags, {}, {}, {}, 0, "", NULL)
        /\ used' = used + 1

\* the host halts a running CPU
call_cpu_process_signal ==
    /\ cpu.is_running = 1
    /\ Becomes(cpu_process_signal(Plain(cpu), "rs_halt"))
    /\ last' = Record("cpu_process_signal", 0, {}, {}, {}, 0, "", NULL)
    /\ UNCHANGED used

call_rsk_cpu_signal ==
    /\ cpu.is_running = 1
    /\ Becomes(rsk_cpu_signal(Plain(cpu), "rs_halt"))
    /\ last' = Record("rsk_cpu_signal", 0, {}, {}, {}, 0, "", NULL)
    /\ UNCHANGED used

\* the host asks for a trace of the current state
call_cpu_log_trace ==
    /\ last.op \notin Queries
    /\ Becomes(cpu_log_trace(Plain(cpu)))
    /\ last' = Record("cpu_log_trace", 0, {}, {}, {}, 0, "", NULL)
    /\ UNCHANGED used

\* one step on the current struct: the host returns instr for the load at pc,
\* and host_word or host_dword to the load of an lw or ld
Step(instr, host_word, host_dword, ub) ==
    LET r == cpu_execute(Ctx(cpu, host_word, host_dword, ub), instr)
    IN  /\ Becomes(r.c)
        /\ last' = Record("cpu_execute", 0, host_word \cup host_dword, instr,
                          {}, r.ret, "", NULL)
        /\ used' = used + 1

call_cpu_execute ==
    \E instr \in ProgramWords :
        \E host_word \in HostWordsFor(instr), host_dword \in HostDwordsFor(instr),
           ub \in UbFor(instr) :
            /\ used < MaxCalls
            /\ Step(instr, host_word, host_dword, ub)

call_rsk_cpu_run ==
    \E cycles \in 1..MaxCycles :
        LET r == rsk_cpu_run(Plain(cpu), cycles)
        IN  /\ used < MaxCalls
            /\ Becomes(r.c)
            /\ last' = Record("rsk_cpu_run", cycles, {}, {}, {}, r.ret, "", NULL)
            /\ used' = used + 1

Next ==
    \/ call_cpu_init
    \/ call_rsk_init
    \/ call_cpu_write_register
    \/ call_cpu_read_register
    \/ call_rsk_reg_set
    \/ call_rsk_reg_get
    \/ call_cpu_set_pc
    \/ call_rsk_pc_set
    \/ call_rsk_config_set
    \/ call_cpu_process_signal
    \/ call_rsk_cpu_signal
    \/ call_cpu_log_trace
    \/ call_cpu_execute
    \/ call_rsk_cpu_run

Spec == Init /\ [][Next]_vars

\* ---------- the executors, one instruction on each register state ----------

\* the struct after construction and writes of x1, x31 and pc through the API
InitExec ==
    /\ \E v1 \in Values, v31 \in Values, p \in PcValues :
           cpu = [FreshCpu EXCEPT !.x[1] = v1, !.x[31] = v31, !.pc = p]
    /\ Constructed

step_cpu_execute ==
    \E instr \in InstrWords :
        \E host_word \in HostWordsFor(instr), host_dword \in HostDwordsFor(instr),
           ub \in UbFor(instr) :
            /\ used < MaxExecSteps
            /\ Step(instr, host_word, host_dword, ub)

NextExec == step_cpu_execute

SpecExec == InitExec /\ [][NextExec]_vars

\* ---------- decoding: the registry and the immediates ----------

\* the fixed bits of the mnemonics the decoding test names, as the RISC-V
\* manual gives them: fixed is the set of fixed bit positions, bits their values
OpBits == 0..6
F3Bits == 12..14
F6Bits == 26..31
F7Bits == 25..31

Std(mnemonic) ==
    CASE mnemonic = "lui"    -> [fixed |-> OpBits, bits |-> {0, 1, 2, 4, 5}]
      [] mnemonic = "addi"   -> [fixed |-> OpBits \cup F3Bits, bits |-> {0, 1, 4}]
      [] mnemonic = "xori"   -> [fixed |-> OpBits \cup F3Bits, bits |-> {0, 1, 4, 14}]
      [] mnemonic = "ori"    -> [fixed |-> OpBits \cup F3Bits, bits |-> {0, 1, 4, 13, 14}]
      [] mnemonic = "andi"   -> [fixed |-> OpBits \cup F3Bits, bits |-> {0, 1, 4, 12, 13, 14}]
      [] mnemonic = "slli"   -> [fixed |-> OpBits \cup F3Bits \cup F6Bits, bits |-> {0, 1, 4, 12}]
      [] mnemonic = "srli"   -> [fixed |-> OpBits \cup F3Bits \cup F6Bits, bits |-> {0, 1, 4, 12, 14}]
      [] mnemonic = "srai"   -> [fixed |-> OpBits \cup F3Bits \cup F6Bits,
                                 bits |-> {0, 1, 4, 12, 14, 30}]
      [] mnemonic = "add"    -> [fixed |-> OpBits \cup F3Bits \cup F7Bits, bits |-> {0, 1, 4, 5}]
      [] mnemonic = "ebreak" -> [fixed |-> WordBits, bits |-> {0, 1, 4, 5, 6, 20}]
      [] mnemonic = "lw"     -> [fixed |-> OpBits \cup F3Bits, bits |-> {0, 1, 13}]
      [] mnemonic = "sw"     -> [fixed |-> OpBits \cup F3Bits, bits |-> {0, 1, 5, 13}]
      [] mnemonic = "addiw"  -> [fixed |-> OpBits \cup F3Bits, bits |-> {0, 1, 3, 4}]
      [] mnemonic = "ld"     -> [fixed |-> OpBits \cup F3Bits, bits |-> {0, 1, 12, 13}]

TestedMnemonics ==
    {"lui", "addi", "xori", "ori", "andi", "slli", "srli", "srai", "add", "ebreak",
     "lw", "sw", "addiw", "ld"}

\* what the free bits of a word are filled with: nothing, everything, rd,
\* rs1, rs2, the shift amount, the upper immediate bits, one bit of each field
Fillers == {{}, WordBits, 7..11, 15..19, 20..24, 20..25, 25..31, {7, 15, 20, 31}}

\* the words that carry the pattern of a mnemonic
WordsOf(mnemonic) ==
    {Std(mnemonic).bits \cup (f \ Std(mnemonic).fixed) : f \in Fillers}

\* the mnemonic whose pattern a word carries, "" when it carries none
MnemonicOf(instr) ==
    IF \E m \in TestedMnemonics : AND(instr, Std(m).fixed) = Std(m).bits
    THEN CHOOSE m \in TestedMnemonics : AND(instr, Std(m).fixed) = Std(m).bits
    ELSE ""

\* the words handed to the decoder
DecodeWords ==
    UNION {WordsOf(m) : m \in TestedMnemonics} \cup InstrWords

\* the 32-bit words whose immediates are decoded and encoded back: zero, all
\* ones, every single bit, every single bit cleared, the two alternations
ImmediateWords ==
    {{}, WordBits, {i \in WordBits : i % 2 = 0}, {i \in WordBits : i % 2 = 1}}
        \cup {{i} : i \in WordBits} \cup {WordBits \ {i} : i \in WordBits}

Formats == {"I", "S", "B", "U", "J"}

\* ---------- the disassembler ----------

\* a C string is the sequence of its characters
Digits == <<"0", "1", "2", "3", "4", "5", "6", "7", "8", "9",
            "a", "b", "c", "d", "e", "f">>

\* the decimal digits of n >= 0
RECURSIVE Decimal(_)
Decimal(n) == IF n < 10 THEN <<Digits[n + 1]>>
              ELSE Append(Decimal(n \div 10), Digits[(n % 10) + 1])

\* the hexadecimal digits of d, at least precision of them
Hex(d, precision) ==
    LET used_digits == {k + 1 : k \in {j \in 0..15 : d \cap ((4 * j)..(4 * j + 3)) # {}}}
        n == CHOOSE m \in used_digits \cup {precision} :
                 \A o \in used_digits \cup {precision} : o <= m
    IN  [i \in 1..n |-> Digits[Limb(d, n - i, 4) + 1]]

\* the conversion specifications the formats use, as printf performs them;
\* # puts 0x before a non-zero value only
Conversions == {"%hhu", "%d", "%#x", "%#lx", "%#.8lx"}

Convert(conversion, arg) ==
    CASE conversion = "%hhu"   -> Decimal(Val(ToByte(arg)))
      [] conversion = "%d"     -> IF 31 \in arg
                                  THEN <<"-">> \o Decimal(Val(ToWord(NOT(arg))) + 1)
                                  ELSE Decimal(Val(ToWord(arg)))
      [] conversion = "%#x"    -> IF ToWord(arg) = {} THEN <<"0">>
                                  ELSE <<"0", "x">> \o Hex(ToWord(arg), 1)
      [] conversion = "%#lx"   -> IF arg = {} THEN <<"0">>
                                  ELSE <<"0", "x">> \o Hex(arg, 1)
      [] conversion = "%#.8lx" -> IF arg = {} THEN Hex(arg, 8)
                                  ELSE <<"0", "x">> \o Hex(arg, 8)

\* the output of a format: its characters, each conversion taking the next argument
RECURSIVE Formatted(_, _)
Formatted(format, args) ==
    IF format = <<>> THEN <<>>
    ELSE IF Head(format) \in Conversions
         THEN Convert(Head(format), Head(args)) \o Formatted(Tail(format), Tail(args))
         ELSE <<Head(format)>> \o Formatted(Tail(format), args)

\* snprintf: at most size - 1 characters are stored; ret is the untruncated length
snprintf(size, format, args) ==
    LET text == Formatted(format, args)
    IN  [buffer |-> IF Len(text) < size THEN text ELSE SubSeq(text, 1, size - 1),
         ret |-> Len(text)]

\* the format and the arguments each z_disasm_<name> hands to DISASM_FMT
z_disasm(links, instr) ==
    CASE links = "lui" ->
          LET imm == Sword(utype_imm(instr))
          IN  [format |-> IF 63 \in imm
                  THEN <<"l", "u", "i", " ", "x", "%hhu", ",", " ", "%d">>
                  ELSE <<"l", "u", "i", " ", "x", "%hhu", ",", " ", "%#x">>,
               args |-> <<Dw(GET_RD(instr)), imm>>]
      [] links = "addi" ->
          LET imm == Sword(itype_imm(instr))
          IN  [format |-> IF 63 \in imm
                  THEN <<"a", "d", "d", "i", " ", "x", "%hhu", ",", " ", "x", "%hhu", ",", " ", "%d">>
                  ELSE <<"a", "d", "d", "i", " ", "x", "%hhu", ",", " ", "x", "%hhu", ",", " ", "%#x">>,
               args |-> <<Dw(GET_RD(instr)), Dw(GET_RS1(instr)), imm>>]
      [] links = "xori" ->
          LET imm == Sword(itype_imm(instr))
          IN  [format |-> IF 63 \in imm
                  THEN <<"x", "o", "r", "i", " ", "x", "%hhu", ",", " ", "x", "%hhu", ",", " ", "%d">>
                  ELSE <<"x", "o", "r", "i", " ", "x", "%hhu", ",", " ", "x", "%hhu", ",", " ", "%#x">>,
               args |-> <<Dw(GET_RD(instr)), Dw(GET_RS1(instr)), imm>>]
      [] links = "ori" ->
          LET imm == Sword(itype_imm(instr))
          IN  [format |-> IF 63 \in imm
                  THEN <<"o", "r", "i", " ", "x", "%hhu", ",", " ", "x", "%hhu", ",", " ", "%d">>
                  ELSE <<"o", "r", "i", " ", "x", "%hhu", ",", " ", "x", "%hhu", ",", " ", "%#x">>,
               args |-> <<Dw(GET_RD(instr)), Dw(GET_RS1(instr)), imm>>]
      [] links = "andi" ->
          LET imm == Sword(itype_imm(instr))
          IN  [format |-> IF 63 \in imm
                  THEN <<"a", "n", "d", "i", " ", "x", "%hhu", ",", " ", "x", "%hhu", ",", " ", "%d">>
                  ELSE <<"a", "n", "d", "i", " ", "x", "%hhu", ",", " ", "x", "%hhu", ",", " ", "%#x">>,
               args |-> <<Dw(GET_RD(instr)), Dw(GET_RS1(instr)), imm>>]
      [] links = "slli" ->
          LET imm == SHR(AND(BITSMASK(25, 20), instr), 20)
          IN  [format |-> <<"s", "l", "l", "i", " ", "x", "%hhu", ",", " ", "x", "%hhu", ",", " ", "%#lx">>,
               args |-> <<Dw(GET_RD(instr)), Dw(GET_RS1(instr)), imm>>]
      [] links = "srli" ->
          LET imm == SHR(AND(BITSMASK(25, 20), instr), 20)
          IN  [format |-> <<"s", "r", "l", "i", " ", "x", "%hhu", ",", " ", "x", "%hhu", ",", " ", "%#lx">>,
               args |-> <<Dw(GET_RD(instr)), Dw(GET_RS1(instr)), imm>>]
      [] links = "srai" ->
          LET imm == SHR(AND(BITSMASK(25, 20), instr), 20)
          IN  [format |-> <<"s", "r", "a", "i", " ", "x", "%hhu", ",", " ", "x", "%hhu", ",", " ", "%#lx">>,
               args |-> <<Dw(GET_RD(instr)), Dw(GET_RS1(instr)), imm>>]
      [] links = "add" ->
          [format |-> <<"a", "d", "d", " ", "x", "%hhu", ",", " ", "x", "%hhu", ",", " ", "x", "%hhu">>,
           args |-> <<Dw(GET_RD(instr)), Dw(GET_RS1(instr)), Dw(GET_RS2(instr))>>]
      [] links = "sub" ->
          [format |-> <<"s", "u", "b", " ", "x", "%hhu", ",", " ", "x", "%hhu", ",", " ", "x", "%hhu">>,
           args |-> <<Dw(GET_RD(instr)), Dw(GET_RS1(instr)), Dw(GET_RS2(instr))>>]
      [] links = "sll" ->
          [format |-> <<"s", "l", "l", " ", "x", "%hhu", ",", " ", "x", "%hhu", ",", " ", "x", "%hhu">>,
           args |-> <<Dw(GET_RD(instr)), Dw(GET_RS1(instr)), Dw(GET_RS2(instr))>>]
      [] links = "srl" ->
          [format |-> <<"s", "r", "l", " ", "x", "%hhu", ",", " ", "x", "%hhu", ",", " ", "x", "%hhu">>,
           args |-> <<Dw(GET_RD(instr)), Dw(GET_RS1(instr)), Dw(GET_RS2(instr))>>]
      [] links = "sra" ->
          [format |-> <<"s", "r", "a", " ", "x", "%hhu", ",", " ", "x", "%hhu", ",", " ", "x", "%hhu">>,
           args |-> <<Dw(GET_RD(instr)), Dw(GET_RS1(instr)), Dw(GET_RS2(instr))>>]
      [] links = "ebreak" ->
          [format |-> <<"e", "b", "r", "e", "a", "k">>,
           args |-> <<>>]
      [] links = "lw" ->
          LET imm == Sword(itype_imm(instr))
          IN  [format |-> IF 63 \in imm
                  THEN <<"l", "w", " ", "x", "%hhu", ",", " ", "%d", "(", "x", "%hhu", ")">>
                  ELSE <<"l", "w", " ", "x", "%hhu", ",", " ", "%#x", "(", "x", "%hhu", ")">>,
               args |-> <<Dw(GET_RD(instr)), imm, Dw(GET_RS1(instr))>>]
      [] links = "sw" ->
          LET imm == Sword(stype_imm(instr))
          IN  [format |-> IF 63 \in imm
                  THEN <<"s", "w", " ", "x", "%hhu", ",", " ", "%d", "(", "x", "%hhu", ")">>
                  ELSE <<"s", "w", " ", "x", "%hhu", ",", " ", "%#x", "(", "x", "%hhu", ")">>,
               args |-> <<Dw(GET_RS2(instr)), imm, Dw(GET_RS1(instr))>>]
      [] links = "jal" ->
          LET imm == Sword(jtype_imm(instr))
          IN  [format |-> IF 63 \in imm
                  THEN <<"j", "a", "l", " ", "%hhu", ",", " ", "%d">>
                  ELSE <<"j", "a", "l", " ", "%hhu", ",", " ", "%#x">>,
               args |-> <<Dw(GET_RD(instr)), imm>>]
      [] links = "jalr" ->
          LET imm == Sword(itype_imm(instr))
          IN  [format |-> IF 63 \in imm
                  THEN <<"j", "a", "l", "r", " ", "%hhu", ",", " ", "%hhu", ",", " ", "%d">>
                  ELSE <<"j", "a", "l", "r", " ", "%hhu", ",", " ", "%hhu", ",", " ", "%#x">>,
               args |-> <<Dw(GET_RD(instr)), Dw(GET_RS1(instr)), imm>>]
      [] links = "beq" ->
          LET imm == Sword(btype_imm(instr))
          IN  [format |-> IF 63 \in imm
                  THEN <<"b", "e", "q", " ", "%hhu", ",", " ", "%hhu", ",", " ", "%d">>
                  ELSE <<"b", "e", "q", " ", "%hhu", ",", " ", "%hhu", ",", " ", "%#x">>,
               args |-> <<Dw(GET_RS1(instr)), Dw(GET_RS2(instr)), imm>>]
      [] links = "bne" ->
          LET imm == Sword(btype_imm(instr))
          IN  [format |-> IF 63 \in imm
                  THEN <<"b", "n", "e", " ", "%hhu", ",", " ", "%hhu", ",", " ", "%d">>
                  ELSE <<"b", "n", "e", " ", "%hhu", ",", " ", "%hhu", ",", " ", "%#x">>,
               args |-> <<Dw(GET_RS1(instr)), Dw(GET_RS2(instr)), imm>>]
      [] links = "blt" ->
          LET imm == Sword(btype_imm(instr))
          IN  [format |-> IF 63 \in imm
                  THEN <<"b", "l", "t", " ", "%hhu", ",", " ", "%hhu", ",", " ", "%d">>
                  ELSE <<"b", "l", "t", " ", "%hhu", ",", " ", "%hhu", ",", " ", "%#x">>,
               args |-> <<Dw(GET_RS1(instr)), Dw(GET_RS2(instr)), imm>>]
      [] links = "bge" ->
          LET imm == Sword(btype_imm(instr))
          IN  [format |-> IF 63 \in imm
                  THEN <<"b", "g", "e", " ", "%hhu", ",", " ", "%hhu", ",", " ", "%d">>
                  ELSE <<"b", "g", "e", " ", "%hhu", ",", " ", "%hhu", ",", " ", "%#x">>,
               args |-> <<Dw(GET_RS1(instr)), Dw(GET_RS2(instr)), imm>>]
      [] links = "bltu" ->
          LET imm == Sword(btype_imm(instr))
          IN  [format |-> IF 63 \in imm
                  THEN <<"b", "l", "t", "u", " ", "%hhu", ",", " ", "%hhu", ",", " ", "%d">>
                  ELSE <<"b", "l", "t", "u", " ", "%hhu", ",", " ", "%hhu", ",", " ", "%#x">>,
               args |-> <<Dw(GET_RS1(instr)), Dw(GET_RS2(instr)), imm>>]
      [] links = "bgeu" ->
          LET imm == Sword(btype_imm(instr))
          IN  [format |-> IF 63 \in imm
                  THEN <<"b", "g", "e", "u", " ", "%hhu", ",", " ", "%hhu", ",", " ", "%d">>
                  ELSE <<"b", "g", "e", "u", " ", "%hhu", ",", " ", "%hhu", ",", " ", "%#x">>,
               args |-> <<Dw(GET_RS1(instr)), Dw(GET_RS2(instr)), imm>>]
      [] links = "addiw" ->
          LET imm == Sword(itype_imm(instr))
          IN  [format |-> IF 63 \in imm
                  THEN <<"a", "d", "d", "i", "w", " ", "%hhu", ",", " ", "%hhu", ",", " ", "%d">>
                  ELSE <<"a", "d", "d", "i", "w", " ", "%hhu", ",", " ", "%hhu", ",", " ", "%#x">>,
               args |-> <<Dw(GET_RD(instr)), Dw(GET_RS1(instr)), imm>>]
      [] links = "addw" ->
          [format |-> <<"a", "d", "d", "w", " ", "x", "%hhu", ",", " ", "x", "%hhu", ",", " ", "x", "%hhu">>,
           args |-> <<Dw(GET_RD(instr)), Dw(GET_RS1(instr)), Dw(GET_RS2(instr))>>]
      [] links = "ld" ->
          LET imm == Sword(itype_imm(instr))
          IN  [format |-> IF 63 \in imm
                  THEN <<"l", "d", " ", "%hhu", ",", " ", "%d", "(", "%hhu", ")">>
                  ELSE <<"l", "d", " ", "%hhu", ",", " ", "%#x", "(", "%hhu", ")">>,
               args |-> <<Dw(GET_RD(instr)), imm, Dw(GET_RS1(instr))>>]
      [] links = "sd" ->
          LET imm == Sword(stype_imm(instr))
          IN  [format |-> IF 63 \in imm
                  THEN <<"s", "d", " ", "%hhu", ",", " ", "%d", "(", "%hhu", ")">>
                  ELSE <<"s", "d", " ", "%hhu", ",", " ", "%#x", "(", "%hhu", ")">>,
               args |-> <<Dw(GET_RS2(instr)), imm, Dw(GET_RS1(instr))>>]
      [] links = "mul" ->
          [format |-> <<"m", "u", "l", " ", "%hhu", ",", " ", "%hhu", ",", " ", "%hhu">>,
           args |-> <<Dw(GET_RD(instr)), Dw(GET_RS1(instr)), Dw(GET_RS2(instr))>>]

\* DISASM_FMT in the body of z_disasm_<links>
DISASM_FMT(links, instr, buffer_size) ==
    snprintf(buffer_size, z_disasm(links, instr).format, z_disasm(links, instr).args)

\* cpu_disassemble_instr: [buffer, returned]; buffer is the string the buffer
\* holds afterwards. The head is written at the start of the buffer and the
\* instruction's text 13 characters in, whatever the length of the head; with
\* no descriptor found the call goes through a null pointer: c.ub = 0 is the
\* call that never comes back, c.ub = 1 the one that comes back having written
\* nothing
cpu_disassemble_instr(c, buffer, buffer_size, instr) ==
    IF buffer_size < 32 THEN [buffer |-> buffer, returned |-> TRUE]
    ELSE LET head  == snprintf(buffer_size, <<"%#.8lx", " ", " ", " ">>, <<instr>>).buffer
             bps   == buffer_size - 13
             itype == registry_search(c.cpu.instruction_set, instr)
         IN  IF Len(head) < 13
             THEN [buffer |-> head, returned |-> itype # NULL \/ c.ub = 1]
             ELSE IF itype = NULL
                  THEN [buffer |-> SubSeq(head, 1, 13) \o <<"?">>, returned |-> c.ub = 1]
                  ELSE [buffer |-> SubSeq(head, 1, 13)
                                       \o DISASM_FMT(Deref(itype).links, instr, bps).buffer,
                        returned |-> TRUE]

\* the sizes of the buffer handed to the disassembler: too small, the least
\* accepted, the test suite's
TESTING_BUFFER_SIZE == 80
BufferSizes == {31, 32, TESTING_BUFFER_SIZE}

\* the words handed to the disassembler: the instruction words, the test
\* suite's lui x6, 0x1000, and addi x1, x0, 0; addi x1, x0, -1; lw x1, 0(x31)
DisasmWords ==
    InstrWords \cup ProgramWords
        \cup {AsmU({12}, <<0,0,1,1,0>>, <<0,1,1,0,1,1,1>>),
              AsmI({}, X0, <<0,0,0>>, X1, OP_IMM),
              AsmI(Neg(1), X0, <<0,0,0>>, X1, OP_IMM),
              AsmI({}, X31, <<0,1,0>>, X1, OP_LOAD)}

\* cpu_disassemble_instr on a word and an empty buffer; last.val is the string
\* the buffer holds afterwards, last.n whether the call came back
call_cpu_disassemble_instr ==
    \E instr \in DisasmWords, buffer_size \in BufferSizes, ub \in {0, 1} :
        LET itype == registry_search(cpu.instruction_set, instr)
            r == cpu_disassemble_instr(Ctx(cpu, {}, {}, ub), <<>>, buffer_size, instr)
        IN  /\ last.op \notin Queries
            /\ itype # NULL => ub = 0
            /\ Becomes(Plain(cpu))
            /\ last' = Record("cpu_disassemble_instr", buffer_size, r.buffer, instr, {},
                              IF r.returned THEN 1 ELSE 0,
                              cpu_identify_instr(Plain(cpu), instr), itype)
            /\ UNCHANGED used

\* the struct after cpu_init(NULL, services)
InitDecode == cpu = FreshCpu /\ Constructed

\* cpu_identify_instr on a word, with the descriptor the search found
call_cpu_identify_instr ==
    \E instr \in DecodeWords :
        /\ last.op \notin Queries
        /\ Becomes(Plain(cpu))
        /\ last' = Record("cpu_identify_instr", 0, {}, instr, {}, 0,
                          cpu_identify_instr(Plain(cpu), instr),
                          registry_search(cpu.instruction_set, instr))
        /\ UNCHANGED used

\* the decoder of a format on a word, and the test suite's encoder on its result
call_decode ==
    \E F \in Formats, instr \in ImmediateWords :
        /\ last.op \notin Queries
        /\ Becomes(Plain(cpu))
        /\ last' = Record("decode", 0, decode(F, instr), instr,
                          encode(F, decode(F, instr)), 0, F, NULL)
        /\ UNCHANGED used

\* one more array appended to the registry of the struct
call_registry_append ==
    \E new_types \in {"rv64i", "rv64m"}, alloc_ok \in BOOLEAN :
        LET r == registry_append(cpu.instruction_set,
                                 Len(TypeArray(new_types)), new_types, alloc_ok)
        IN  /\ used < MaxAppends
            /\ cpu' = [cpu EXCEPT !.instruction_set = r.registry]
            /\ calls' = <<>>
            /\ last' = Record("registry_append", 0, {}, {}, {}, r.ret, new_types, NULL)
            /\ used' = used + 1

\* cpu_init(NULL, services): a new struct from calloc, each of the two
\* registry allocations succeeding or failing; last.n is how many failed
call_cpu_init_allocating ==
    \E alloc1 \in BOOLEAN, alloc2 \in BOOLEAN :
        /\ used < MaxAppends
        /\ Becomes(cpu_init(Plain(ZeroCpu), alloc1, alloc2))
        /\ last' = Record("cpu_init", 0, {}, {}, {},
                          (IF alloc1 THEN 0 ELSE 1) + (IF alloc2 THEN 0 ELSE 1), "", NULL)
        /\ used' = used + 1

NextDecode ==
    \/ call_cpu_identify_instr
    \/ call_decode
    \/ call_cpu_disassemble_instr
    \/ call_registry_append
    \/ call_cpu_init_allocating

SpecDecode == InitDecode /\ [][NextDecode]_vars

\* ---------- the header-only revision as a state machine ----------

\* what an indeterminate object holds
JunkValues == {{}, {3, 40}}

\* the required bits of each descriptor: the words with every free bit clear
HeaderExactWords ==
    {h_rv64i_instructions[i].required_bits : i \in 1..h_rv64i_size}
        \cup {h_rv64m_instructions[i].required_bits : i \in 1..h_rv64m_size}

HeaderWords == HeaderExactWords \cup ProgramWords \cup RegWords \cup MemWords

\* the struct is static: zero before rsk_init
h_FreshCpu == h_rsk_init(Plain(ZeroCpu)).cpu

InitHeader == cpu = h_FreshCpu /\ Constructed

\* the context of a call of the header-only revision
h_Ctx(s, host_dword, ub, junk) ==
    [Ctx(s, {}, host_dword, ub) EXCEPT !.junk = junk]

\* the indices whose read goes beyond the register array, and the junk it finds
JunkFor(index) == IF index \in 0..(REGISTER_COUNT - 1) THEN {{}} ELSE JunkValues

h_call_rsk_init ==
    /\ used < MaxCalls
    /\ Becomes(h_rsk_init(Plain(cpu)))
    /\ last' = Record("rsk_init", 0, {}, {}, {}, 0, "", NULL)
    /\ used' = used + 1

h_call_cpu_write_register ==
    \E index \in IntIndices, value \in WrittenValues :
        /\ used < MaxCalls
        /\ Becomes(h_cpu_write_register(Plain(cpu), index, value))
        /\ last' = Record("cpu_write_register", index, value, {}, {}, 0, "", NULL)
        /\ used' = used + 1

h_call_cpu_read_register ==
    \E index \in IntIndices :
        \E junk \in JunkFor(index) :
            LET r == h_cpu_read_register(h_Ctx(cpu, {}, 0, junk), index)
            IN  /\ last.op \notin Queries
                /\ Becomes(r.c)
                /\ last' = Record("cpu_read_register", index, {}, {}, r.ret, 0, "", NULL)
                /\ UNCHANGED used

h_call_rsk_reg_set ==
    \E index \in IntIndices, value \in WrittenValues :
        /\ used < MaxCalls
        /\ Becomes(h_rsk_reg_set(Plain(cpu), index, value))
        /\ last' = Record("rsk_reg_set", index, value, {}, {}, 0, "", NULL)
        /\ used' = used + 1

h_call_rsk_reg_get ==
    \E index \in IntIndices, ub \in {0, 1}, junk \in JunkValues :
        LET r == h_rsk_reg_get(h_Ctx(cpu, {}, ub, junk), index)
        IN  /\ last.op \notin Queries
            /\ Becomes(r.c)
            /\ last' = Record("rsk_reg_get", index, {}, {}, r.ret, 0, "", NULL)
            /\ UNCHANGED used

h_call_rsk_pc_set ==
    \E value \in WrittenPcValues :
        /\ used < MaxCalls
        /\ Becomes(h_rsk_pc_set(Plain(cpu), value))
        /\ last' = Record("rsk_pc_set", 0, value, {}, {}, 0, "", NULL)
        /\ used' = used + 1

\* registry_search on a word: the link found and the functions it links
h_call_registry_search ==
    \E instr \in DecodeWords \cup HeaderExactWords :
        LET itype == h_registry_search(cpu.instruction_set, instr)
        IN  /\ last.op \notin Queries
            /\ Becomes(Plain(cpu))
            /\ last' = Record("registry_search", 0, {}, instr, {}, 0,
                              IF itype = NULL THEN "NULL" ELSE h_Deref(itype).links,
                              itype)
            /\ UNCHANGED used

\* one step: the host returns instr for the load at pc and host_dword to ld
h_call_cpu_execute ==
    \E instr \in HeaderWords :
        \E host_dword \in (IF instr = {12, 13} THEN HostDwords ELSE {{}}),
           ub \in (IF h_registry_search(cpu.instruction_set, instr) = NULL
                   THEN {0, 1} ELSE {0}) :
            LET r == h_cpu_execute(h_Ctx(cpu, host_dword, ub, {}), instr)
            IN  /\ used < MaxCalls
                /\ Becomes(r.c)
                /\ last' = Record("cpu_execute", 0, host_dword, instr, {}, r.ret, "", NULL)
                /\ used' = used + 1

h_call_rsk_cpu_run ==
    \E cycles \in 1..MaxCycles :
        LET r == h_rsk_cpu_run(Plain(cpu), cycles)
        IN  /\ used < MaxCalls
            /\ Becomes(r.c)
            /\ last' = Record("rsk_cpu_run", cycles, {}, {}, {}, r.ret, "", NULL)
            /\ used' = used + 1

NextHeader ==
    \/ h_call_rsk_init
    \/ h_call_cpu_write_register
    \/ h_call_cpu_read_register
    \/ h_call_rsk_reg_set
    \/ h_call_rsk_reg_get
    \/ h_call_rsk_pc_set
    \/ h_call_registry_search
    \/ h_call_cpu_execute
    \/ h_call_rsk_cpu_run

SpecHeader == InitHeader /\ [][NextHeader]_vars

\* ---------- the executors of the header-only revision, one on each register state ----------

\* The registers of the header-only revision stay 0 through its own API, so
\* its executors are applied here as functions: the struct handed to one holds
\* any values in x1 and x31 and any pc.
InitHeaderExec ==
    /\ \E v1 \in Values, v31 \in Values, p \in PcValues :
           cpu = [h_FreshCpu EXCEPT !.x[1] = v1, !.x[31] = v31, !.pc = p]
    /\ Constructed

\* itype->execute(cpu, instr, &updated_pc) for descriptor k of the registry and
\* a word that satisfies the mask and required bits of descriptor k; last.ret
\* and last.val are the index and the value the executor handed to
\* cpu_write_register first (index 0: it handed none)
h_step_execute ==
    \E k \in 1..cpu.instruction_set.count, instr \in InstrWords :
        LET itype == cpu.instruction_set.type_links[k]
        IN  \E host_dword \in (IF h_Deref(itype).links = "ld" THEN HostDwords ELSE {{}}),
               ub \in UbFor(instr),
               junk \in (IF h_Deref(itype).links = "ld" THEN JunkValues ELSE {{}}) :
                LET c == h_execute(h_Deref(itype).links,
                                   h_Ctx(cpu, host_dword, ub, junk), instr)
                IN  /\ used < MaxExecSteps
                    /\ AND(h_Deref(itype).mask, instr) = h_Deref(itype).required_bits
                    /\ Becomes(c)
                    /\ last' = Record("execute", k,
                                      IF c.handed = <<>> THEN {} ELSE c.handed[1].value,
                                      instr,
                                      IF c.handed = <<>> THEN {} ELSE Dw(c.handed[1].index),
                                      c.updated_pc, h_Deref(itype).links, itype)
                    /\ used' = used + 1

NextHeaderExec == h_step_execute

SpecHeaderExec == InitHeaderExec /\ [][NextHeaderExec]_vars

\* ---------- reference definitions, from the RISC-V manual ----------

\* the field w[hi:lo] as a number
Field(w, hi, lo) == Val(Move(w, hi, lo, 0))

\* v, whose top bit is bit, sign-extended to 64 bits
Sext(v, bit) == IF bit \in v THEN v \cup (bit..63) ELSE v

\* the immediate of a word in each format, sign-extended
RefImm(F, w) ==
    CASE F = "I" -> Sext(Move(w, 31, 20, 0), 11)
      [] F = "S" -> Sext(Move(w, 31, 25, 5) \cup Move(w, 11, 7, 0), 11)
      [] F = "B" -> Sext(Move(w, 31, 31, 12) \cup Move(w, 30, 25, 5)
                             \cup Move(w, 11, 8, 1) \cup Move(w, 7, 7, 11), 12)
      [] F = "U" -> Sext(Move(w, 31, 12, 12), 31)
      [] F = "J" -> Sext(Move(w, 31, 31, 20) \cup Move(w, 30, 21, 1)
                             \cup Move(w, 20, 20, 11) \cup Move(w, 19, 12, 12), 20)

\* the bit positions of a word that hold the immediate of each format
ImmBits(F) ==
    CASE F = "I" -> 20..31
      [] F = "S" -> (25..31) \cup (7..11)
      [] F = "B" -> (25..31) \cup (7..11)
      [] F = "U" -> 12..31
      [] F = "J" -> 12..31

\* a < b as unsigned and as two's complement 64-bit numbers, limb by limb
UnsignedLess(a, b) ==
    \E k \in 0..3 : /\ Limb(a, k, 16) < Limb(b, k, 16)
                    /\ \A j \in (k + 1)..3 : Limb(a, j, 16) = Limb(b, j, 16)
SignedLess(a, b) == UnsignedLess(XOR(a, {63}), XOR(b, {63}))

\* whether the branch with funct3 f3 is taken on operands a and b
Taken(f3, a, b) ==
    CASE f3 = 0 -> a = b
      [] f3 = 1 -> a # b
      [] f3 = 4 -> SignedLess(a, b)
      [] f3 = 5 -> ~SignedLess(a, b)
      [] f3 = 6 -> UnsignedLess(a, b)
      [] f3 = 7 -> ~UnsignedLess(a, b)
      [] OTHER  -> FALSE

IsBranch(w) == AND(w, OpBits) = {0, 1, 5, 6} /\ Field(w, 14, 12) \in {0, 1, 4, 5, 6, 7}
IsJal(w)    == AND(w, OpBits) = {0, 1, 2, 3, 5, 6}

\* the fetches in a sequence of host calls issued by one API call
Fetches(cs) == {k \in 1..Len(cs) : cs[k].svc = "mem_load_dword"}

\* the descriptors of a registry that a word satisfies, by position
Satisfied(registry, D(_), instr) ==
    {i \in 1..registry.count :
        AND(instr, D(registry.type_links[i]).mask) = D(registry.type_links[i]).required_bits}

\* ---------- the claims ----------

\* C1: register x0 always reads 0: after init and after any sequence of
\* register writes (cpu_write_register, rsk_reg_set, any index and value) and
\* executed instructions (rd = x0 included), the slot x[0] is 0 and a read of
\* register 0, through the core or the facade, returns 0.
C1_X0ReadsZero ==
    /\ cpu.x[0] = {}
    /\ cpu_read_register(Plain(cpu), 0).ret = {}
    /\ rsk_reg_get(Plain(cpu), 0) = {}
    /\ (last.op \in {"cpu_read_register", "rsk_reg_get"} /\ last.idx = 0) => last.ret = {}

\* lui x0, 0x1 has executed: the executor handed a non-zero value to the write of x0
C1_Witness ==
    /\ last.op = "cpu_execute"
    /\ last.n = 1
    /\ last.instr = AsmU({12}, X0, <<0,1,1,0,1,1,1>>)
    /\ GET_RD(last.instr) = 0
    /\ utype_imm(last.instr) # {}

\* C2: for n in 1..31 and every value v, after writing v to register n
\* (cpu_write_register or rsk_reg_set) a read of register n (cpu_read_register,
\* rsk_reg_get) returns v, and no register other than n has changed.
C2_WriteThenRead ==
    (last.op \in {"cpu_write_register", "rsk_reg_set"} /\ last.idx \in 1..31) =>
        /\ h_cpu_read_register(Plain(cpu), last.idx).ret = last.val
        /\ h_rsk_reg_get(Plain(cpu), last.idx).ret = last.val
        /\ \A i \in 0..(REGISTER_COUNT - 1) : i # last.idx => cpu.x[i] = last.pre.x[i]

\* C3: every executed instruction (one fetch/decode/execute step, the
\* terminating ebreak included) increases stats.instructions by exactly 1.
C3_StepCountsOne ==
    last.op = "cpu_execute" =>
        cpu.stats.instructions = last.pre.stats.instructions + 1

\* C4: when a run reaches ebreak the running flag becomes 0, the run stops,
\* and the count the run returns is the number of instructions it executed,
\* the ebreak included: a step on ebreak clears the flag and counts as one,
\* and a run returns as many instructions as it fetched.
C4_RunCountsThroughEbreak ==
    /\ (last.op = "cpu_execute" /\ last.instr = RV64I_EBREAK) =>
           cpu.is_running = 0 /\ last.n = 1
    /\ last.op = "rsk_cpu_run" =>
           last.n = Cardinality(Fetches(calls))

\* C5: registry_search(instr) returns the lowest-indexed descriptor d of the
\* registry with (instr & d.mask) == d.required_bits, and none exactly when
\* no descriptor satisfies that equation.
C5_SearchFindsFirstMatch ==
    last.op = "registry_search" =>
        LET registry == cpu.instruction_set
            found == Satisfied(registry, h_Deref, last.instr)
        IN  IF found = {} THEN last.link = NULL
            ELSE /\ last.link # NULL
                 /\ \E i \in found : /\ last.link = registry.type_links[i]
                                     /\ \A j \in found : i <= j

\* C6: after init, every word that carries the standard pattern of one of
\* lui, addi, xori, ori, andi, slli, srli, srai, add, ebreak, lw, sw, addiw,
\* ld, whatever its free bits, is decoded to the descriptor of that mnemonic:
\* the functions the descriptor links are that mnemonic's.
C6_PatternDecodesToItsMnemonic ==
    (last.op = "registry_search" /\ MnemonicOf(last.instr) # "") =>
        last.name = MnemonicOf(last.instr)

\* C7: a branch (beq, bne, blt, bge, bltu, bgeu) executed at PC p leaves the
\* PC at p + 4 when its condition is false and at p plus the sign-extended
\* B-immediate, an even value in -4096..4094, when it is true, with no further
\* + 4; the arithmetic is modulo 2^64.
C7_BranchPc ==
    (last.op = "cpu_execute" /\ IsBranch(last.instr)) =>
        LET w   == last.instr
            p   == last.pre.pc
            a   == last.pre.x[Field(w, 19, 15)]
            b   == last.pre.x[Field(w, 24, 20)]
            imm == RefImm("B", w)
        IN  /\ 0 \notin imm
            /\ imm \subseteq 0..11 \/ 12..63 \subseteq imm
            /\ last.n = 1
            /\ cpu.pc = IF Taken(Field(w, 14, 12), a, b)
                        THEN Add64(p, imm)
                        ELSE Add64(p, Dw(4))

\* blt x1, x31, -8 taken at PC 0 with x1 = -1 and x31 = 1: the PC wraps to -8
C7_Witness ==
    /\ last.op = "cpu_execute"
    /\ last.instr = AsmB(Neg(8), X31, X1, <<1,0,0>>, OP_BRANCH)
    /\ last.pre.x[1] = DwordBits
    /\ last.pre.x[31] = Dw(1)
    /\ last.pre.pc = {}
    /\ cpu.pc = Neg(8)

\* C8: after jal executed at PC p, register rd (rd in 1..31) holds p + 4 and
\* the PC is p plus the J-immediate sign-extended from bit 20, modulo 2^64,
\* with no further + 4.
C8_JalLinksAndJumps ==
    (last.op = "cpu_execute" /\ IsJal(last.instr)) =>
        LET w  == last.instr
            p  == last.pre.pc
            rd == Field(w, 11, 7)
        IN  /\ last.n = 1
            /\ cpu.pc = Add64(p, RefImm("J", w))
            /\ rd \in 1..31 => cpu.x[rd] = Add64(p, Dw(4))
            /\ \A i \in 0..(REGISTER_COUNT - 1) : i # rd => cpu.x[i] = last.pre.x[i]

\* jal x1, -8 at PC 0x1000: x1 = 0x1004 and the PC is 0xFF8
C8_Witness ==
    /\ last.op = "cpu_execute"
    /\ last.instr = AsmJ(Neg(8), X1, <<1,1,0,1,1,1,1>>)
    /\ last.pre.pc = {12}
    /\ cpu.x[1] = {2, 12}
    /\ cpu.pc = 3..11

\* C9: for each format F of I, S, B, U, J and every 32-bit word w, the decoded
\* immediate is the immediate field of w sign-extended to 64 bits, and the
\* test suite's encoder for F applied to it gives back exactly the immediate
\* bits of w.
C9_DecodeEncodeRoundTrip ==
    last.op = "decode" =>
        /\ last.val = RefImm(last.name, last.instr)
        /\ last.ret = AND(last.instr, ImmBits(last.name))

\* C10: when the fetched word matches no descriptor of the registry the step
\* calls the host's panic, sets the running flag to 0 and executes nothing:
\* PC, registers and counters are unchanged and no store is issued.
C10_UnrecognisedStops ==
    (/\ last.op = "cpu_execute"
     /\ last.instr # RV64I_EBREAK
     /\ Satisfied(last.pre.instruction_set, h_Deref, last.instr) = {}) =>
        /\ \E k \in 1..Len(calls) : calls[k].svc = "panic"
        /\ cpu.is_running = 0
        /\ cpu.pc = last.pre.pc
        /\ cpu.x = last.pre.x
        /\ cpu.stats = last.pre.stats
        /\ \A k \in 1..Len(calls) :
               calls[k].svc \notin {"mem_store_word", "mem_store_dword"}

\* whether a sequence of host calls holds a call of the panic service
Panicked(cs) == \E k \in 1..Len(cs) : cs[k].svc = "panic"

\* C11: for every register index outside 0..31 (negative, 32 and above, 256
\* and above through the int-indexed facade) a register read calls the host's
\* panic and returns 0, and a register write calls the host's panic and leaves
\* all 32 registers unchanged.
C11_OutOfRangePanics ==
    /\ (last.op \in {"cpu_read_register", "rsk_reg_get"} /\ last.idx \notin 0..31) =>
           Panicked(calls) /\ last.ret = {}
    /\ (last.op \in {"cpu_write_register", "rsk_reg_set"} /\ last.idx \notin 0..31) =>
           Panicked(calls) /\ cpu.x = last.pre.x

\* C12: a halt signal issued while the CPU is running is never lost: once
\* cpu_process_signal or rsk_cpu_signal (rs_halt) has cleared the running
\* flag, the instruction step that follows does not set the flag back to 1,
\* so the run stops after at most that one further instruction.
C12_HaltNotLost ==
    [][(/\ last.op \in {"cpu_process_signal", "rsk_cpu_signal"}
        /\ cpu.is_running = 0
        /\ last'.op = "cpu_execute") => cpu'.is_running = 0]_vars

\* the registry that holds the RV64I descriptors followed by the RV64M
\* descriptors, each once
FreshRegistry ==
    [count |-> rv64i_size + rv64m_size,
     type_links |-> [k \in 1..(rv64i_size + rv64m_size) |->
                        IF k <= rv64i_size THEN [set |-> "rv64i", i |-> k]
                        ELSE [set |-> "rv64m", i |-> k - rv64i_size]]]

\* C13: init gives the same fresh state whatever the state before it and
\* however often it is called: running flag 0, configuration nothing, PC 0,
\* all 32 registers 0, all five counters 0, and (cpu_init) a registry of
\* exactly the RV64I descriptors followed by the RV64M descriptors, each once.
C13_InitIsIdempotent ==
    /\ last.op \in {"cpu_init", "rsk_init"} =>
           /\ cpu.is_running = 0
           /\ cpu.config = rc_nothing
           /\ cpu.pc = {}
           /\ \A i \in 0..(REGISTER_COUNT - 1) : cpu.x[i] = {}
           /\ cpu.stats = ZeroStats
    /\ last.op = "cpu_init" => cpu.instruction_set = FreshRegistry

\* an instruction has been executed: by a step, or by its executor alone
Executed == last.op \in {"cpu_execute", "execute"}

\* register rd was written v: after a step it holds v; an executor applied
\* alone handed v for rd to cpu_write_register
Wrote(rd, v) ==
    IF last.op = "execute" THEN last.ret = Dw(rd) /\ last.val = v
    ELSE cpu.x[rd] = v

\* addi, xori, ori, andi (OP-IMM with funct3 000, 100, 110, 111) and add
IsAluImm(w) == AND(w, OpBits) = {0, 1, 4} /\ Field(w, 14, 12) \in {0, 4, 6, 7}
IsAdd(w)    == AND(w, OpBits \cup F3Bits \cup F7Bits) = {0, 1, 4, 5}

\* what the manual has these instructions write to rd: a is the value of rs1,
\* b the value of rs2
RefAlu(w, a, b) ==
    LET imm == RefImm("I", w)
    IN  IF IsAdd(w) THEN Add64(a, b)
        ELSE CASE Field(w, 14, 12) = 0 -> Add64(a, imm)
               [] Field(w, 14, 12) = 4 -> (a \ imm) \cup (imm \ a)
               [] Field(w, 14, 12) = 6 -> a \cup imm
               [] Field(w, 14, 12) = 7 -> a \cap imm

IsSll(w) == AND(w, OpBits \cup F3Bits \cup F7Bits) = {0, 1, 4, 5, 12}
IsSrl(w) == AND(w, OpBits \cup F3Bits \cup F7Bits) = {0, 1, 4, 5, 12, 14}
IsSra(w) == AND(w, OpBits \cup F3Bits \cup F7Bits) = {0, 1, 4, 5, 12, 14, 30}

\* a shifted by n places (n in 0..63) as the manual has sll, srl and sra shift
RefShift(w, a, n) ==
    IF IsSll(w) THEN {i + n : i \in a} \cap DwordBits
    ELSE IF IsSrl(w) THEN {i - n : i \in a} \cap DwordBits
    ELSE ({i - n : i \in a} \cap DwordBits)
             \cup (IF 63 \in a THEN (63 - n)..63 ELSE {})

IsSw(w) == AND(w, OpBits \cup F3Bits) = {0, 1, 5, 13}
IsSd(w) == AND(w, OpBits \cup F3Bits) = {0, 1, 5, 12, 13}

\* the stores in a sequence of host calls
Stores(cs) == {k \in 1..Len(cs) : cs[k].svc \in {"mem_store_word", "mem_store_dword"}}

\* C16: sw issues exactly one host store, a word store whose address is rs1
\* plus the S-immediate sign-extended from bit 11, modulo 2^64, and whose
\* value is the low 32 bits of rs2; sd issues exactly one host store, a dword
\* store at the same kind of address whose value is all 64 bits of rs2.
C16_StoreAddressAndValue ==
    (Executed /\ (IsSw(last.instr) \/ IsSd(last.instr))) =>
        LET w    == last.instr
            base == last.pre.x[Field(w, 19, 15)]
            src  == last.pre.x[Field(w, 24, 20)]
        IN  /\ Cardinality(Stores(calls)) = 1
            /\ \A k \in Stores(calls) :
                   /\ calls[k].svc = IF IsSw(w) THEN "mem_store_word" ELSE "mem_store_dword"
                   /\ calls[k].address = Add64(base, RefImm("S", w))
                   /\ calls[k].value = IF IsSw(w) THEN src \cap WordBits ELSE src

\* sw x1, -4(x31) with x31 = 0 and x1 = -1: the address wraps to
\* 0xFFFFFFFFFFFFFFFC and the word stored is 0xFFFFFFFF
C16_Witness ==
    /\ last.op = "cpu_execute"
    /\ last.instr = AsmS(Neg(4), X1, X31, <<0,1,0>>, OP_STORE)
    /\ last.pre.x[31] = {}
    /\ last.pre.x[1] = DwordBits
    /\ calls = <<[svc |-> "mem_load_dword", address |-> last.pre.pc],
                 [svc |-> "mem_store_word", address |-> 2..63, value |-> WordBits]>>

\* lw and ld: LOAD with funct3 010 and 011
IsLw(w) == AND(w, OpBits \cup F3Bits) = {0, 1, 13}
IsLd(w) == AND(w, OpBits \cup F3Bits) = {0, 1, 12, 13}

\* C17: lw loads a 32-bit word from the address rs1 plus the I-immediate
\* sign-extended from bit 11, modulo 2^64, and writes it to rd sign-extended
\* from bit 31 to 64 bits; ld loads the dword at the same kind of address and
\* writes it to rd unchanged.  (last.val is what the host returned.)
C17_LoadAddressAndValue ==
    (last.op = "cpu_execute" /\ (IsLw(last.instr) \/ IsLd(last.instr))) =>
        LET w    == last.instr
            rd   == Field(w, 11, 7)
            base == last.pre.x[Field(w, 19, 15)]
        IN  /\ Len(calls) = 2
            /\ calls[2] = [svc |-> IF IsLw(w) THEN "mem_load_word" ELSE "mem_load_dword",
                           address |-> Add64(base, RefImm("I", w))]
            /\ rd \in 1..31 =>
                   cpu.x[rd] = IF IsLw(w) THEN Sext(last.val \cap WordBits, 31)
                               ELSE last.val

\* the trace calls in a sequence of host calls
Traces(cs) == {k \in 1..Len(cs) : cs[k].svc = "log_trace"}

\* C18: the host's log_trace is called exactly once for each executed
\* instruction when the trace_log bit of the configuration is set and never
\* when it is clear: once or never by a step that executes an instruction, as
\* often as the instructions it reports or never by a run.
C18_TracePerInstruction ==
    LET traced == last.pre.config % 2 = 1
    IN  /\ (last.op = "cpu_execute" /\ last.n = 1) =>
               Cardinality(Traces(calls)) = IF traced THEN 1 ELSE 0
        /\ last.op = "rsk_cpu_run" =>
               Cardinality(Traces(calls)) = IF traced THEN last.n ELSE 0

\* C19: each executed lw or ld increases stats.loads by exactly 1, each
\* executed sw or sd increases stats.stores by exactly 1, and no other
\* instruction changes stats.stores (or stats.loads).
C19_LoadStoreCounters ==
    (last.op = "cpu_execute" /\ last.n = 1) =>
        /\ cpu.stats.loads = last.pre.stats.loads
               + (IF IsLw(last.instr) \/ IsLd(last.instr) THEN 1 ELSE 0)
        /\ cpu.stats.stores = last.pre.stats.stores
               + (IF IsSw(last.instr) \/ IsSd(last.instr) THEN 1 ELSE 0)

\* the stated rendering of a register and of an immediate
RefRegister(n) == <<"x">> \o Decimal(n)
RefImmediate(v) ==
    IF 63 \in v THEN <<"-">> \o Decimal(0 - SInt(v)) ELSE <<"0", "x">> \o Hex(v, 1)

Sep == <<",", " ">>

\* the operands of word w of the instruction called name, rendered as stated,
\* in the order of the instruction's assembly form
RefOperands(name, w) ==
    LET rd  == RefRegister(Field(w, 11, 7))
        rs1 == RefRegister(Field(w, 19, 15))
        rs2 == RefRegister(Field(w, 24, 20))
        imm(F) == RefImmediate(RefImm(F, w))
    IN  CASE name = "lui" -> rd \o Sep \o imm("U")
          [] name = "jal" -> rd \o Sep \o imm("J")
          [] name \in {"addi", "xori", "ori", "andi", "addiw", "jalr"} ->
                 rd \o Sep \o rs1 \o Sep \o imm("I")
          [] name \in {"slli", "srli", "srai"} ->
                 rd \o Sep \o rs1 \o Sep \o RefImmediate(Move(w, 25, 20, 0))
          [] name \in {"add", "sub", "sll", "srl", "sra", "addw", "mul"} ->
                 rd \o Sep \o rs1 \o Sep \o rs2
          [] name \in {"lw", "ld"} -> rd \o Sep \o imm("I") \o <<"(">> \o rs1 \o <<")">>
          [] name \in {"sw", "sd"} -> rs2 \o Sep \o imm("S") \o <<"(">> \o rs1 \o <<")">>
          [] name \in {"beq", "bne", "blt", "bge", "bltu", "bgeu"} ->
                 rs1 \o Sep \o rs2 \o Sep \o imm("B")
          [] OTHER -> <<>>

\* the stated prefix of word w: 0x, eight hexadecimal digits, three spaces
RefPrefix(w) == <<"0", "x">> \o Hex(ToWord(w), 8) \o <<" ", " ", " ">>

\* text is the stated disassembly of word w of the instruction called name:
\* the prefix, a mnemonic without a space in it, and the operands after a space
IsDisassembly(text, name, w) ==
    LET operands == RefOperands(name, w)
        tail == IF operands = <<>> THEN <<>> ELSE <<" ">> \o operands
    IN  /\ Len(text) > 13 + Len(tail)
        /\ SubSeq(text, 1, 13) = RefPrefix(w)
        /\ \A k \in 14..(Len(text) - Len(tail)) : text[k] # " "
        /\ SubSeq(text, Len(text) - Len(tail) + 1, Len(text)) = tail

\* the disassembler was handed a recognised 32-bit instruction word and the
\* test suite's buffer
Disassembled ==
    /\ last.op = "cpu_disassemble_instr"
    /\ last.link # NULL
    /\ last.idx = TESTING_BUFFER_SIZE
    /\ last.instr \subseteq WordBits

\* C20: the disassembly of a recognised instruction is the 13-character prefix
\* (0x, eight lowercase hexadecimal digits, three spaces), then the mnemonic and
\* its operands, every register as x<n> in decimal and the immediate in signed
\* decimal when negative and in 0x-prefixed hexadecimal when it is not, zero
\* included
C20_DisassemblyFormat ==
    Disassembled => IsDisassembly(last.val, last.name, last.instr)

\* the parts of C20 the disassembler keeps: the prefix of every recognised
\* 32-bit word, and the whole text of the instructions whose formats put x
\* before each register, when the immediate is not zero
C20_PrefixHolds ==
    Disassembled => SubSeq(last.val, 1, 13) = RefPrefix(last.instr)
C20_PrefixedFormatsHold ==
    (/\ Disassembled
     /\ last.name \in {"lui", "addi", "xori", "ori", "andi", "slli", "srli", "srai",
                       "add", "sub", "sll", "srl", "sra", "addw", "ebreak", "lw", "sw"}
     /\ \A k \in 1..Len(last.val) : last.val[k] = "0" => k = 1 \/ last.val[k - 1] # " " \/ k < 14)
        => IsDisassembly(last.val, last.name, last.instr)
C20_TestSuiteLui ==
    (Disassembled /\ last.instr = AsmU({12}, <<0,0,1,1,0>>, <<0,1,1,0,1,1,1>>))
        => last.val = <<"0", "x", "0", "0", "0", "0", "1", "3", "3", "7", " ", " ", " ",
                        "l", "u", "i", " ", "x", "6", ",", " ", "0", "x", "1", "0", "0", "0">>

IsJalr(w) == AND(w, BITSMASK(14, 12) \cup BITSMASK(6, 0)) = {0, 1, 2, 5, 6}

\* C21: after jalr executed at PC p, the PC is the value rs1 had before the
\* instruction plus the I-immediate sign-extended from bit 11, modulo 2^64,
\* with bit 0 cleared, and register rd (rd in 1..31, also when rd is rs1)
\* holds p + 4.
C21_JalrLinksAndJumps ==
    (last.op = "cpu_execute" /\ IsJalr(last.instr)) =>
        LET w  == last.instr
            p  == last.pre.pc
            rd == Field(w, 11, 7)
        IN  /\ cpu.pc = Add64(last.pre.x[Field(w, 19, 15)], RefImm("I", w)) \ {0}
            /\ rd \in 1..31 => cpu.x[rd] = Add64(p, Dw(4))

\* the part of C21 that jalr keeps: the target, and the link register holding p
C21_JalrTarget ==
    (last.op = "cpu_execute" /\ IsJalr(last.instr)) =>
        /\ cpu.pc = Add64(last.pre.x[Field(last.instr, 19, 15)], RefImm("I", last.instr)) \ {0}
        /\ Field(last.instr, 11, 7) \in 1..31 => cpu.x[Field(last.instr, 11, 7)] = last.pre.pc

\* the funct3 of blt, bge, bltu, bgeu
OrderedBranchFunct3 == {4, 5, 6, 7}

IsLui(w) == AND(w, OpBits) = {0, 1, 2, 4, 5}

\* the stated U-immediate of word w: bits 31:12 of w in place, the low 12
\* bits zero, bits 63:32 all equal to bit 31 of w
StatedUImmediate(w) == (w \cap (12..31)) \cup (IF 31 \in w THEN 32..63 ELSE {})

\* C23: the U-type immediate decoder gives, and lui therefore writes to rd
\* (rd in 1..31), the 64-bit value whose bits 31:12 are bits 31:12 of the
\* instruction, whose low 12 bits are zero and whose bits 63:32 all equal bit
\* 31 of the instruction.
C23_UImmediateSignExtended ==
    /\ (last.op = "decode" /\ last.name = "U") => last.val = StatedUImmediate(last.instr)
    /\ (last.op = "cpu_execute" /\ IsLui(last.instr) /\ Field(last.instr, 11, 7) \in 1..31) =>
           cpu.x[Field(last.instr, 11, 7)] = StatedUImmediate(last.instr)

\* the part of C23 that the decoder and lui keep: bits 31:12 in place and the
\* low 12 bits zero, and the whole of it for words with bit 31 clear
C23_LowWordHolds ==
    /\ (last.op = "decode" /\ last.name = "U") =>
           /\ last.val \cap WordBits = last.instr \cap (12..31)
           /\ 31 \notin last.instr => last.val = StatedUImmediate(last.instr)
    /\ (last.op = "cpu_execute" /\ IsLui(last.instr) /\ Field(last.instr, 11, 7) \in 1..31) =>
           /\ cpu.x[Field(last.instr, 11, 7)] \cap WordBits = last.instr \cap (12..31)
           /\ 31 \notin last.instr =>
                  cpu.x[Field(last.instr, 11, 7)] = StatedUImmediate(last.instr)

IsSlli(w) == AND(w, OpBits \cup F3Bits \cup F6Bits) = {0, 1, 4, 12}
IsSrli(w) == AND(w, OpBits \cup F3Bits \cup F6Bits) = {0, 1, 4, 12, 14}
IsSrai(w) == AND(w, OpBits \cup F3Bits \cup F6Bits) = {0, 1, 4, 12, 14, 30}

\* the stated result of the immediate shift w on the value a by s places
StatedShift(w, a, s) ==
    CASE IsSlli(w) -> {i + s : i \in a} \cap DwordBits
      [] IsSrli(w) -> {i - s : i \in a} \cap DwordBits
      [] IsSrai(w) -> ({i - s : i \in a} \cap DwordBits)
                          \cup (IF 63 \in a THEN (64 - s)..63 ELSE {})

IsMul(w) == AND(w, OpBits \cup F3Bits \cup F7Bits) = {0, 1, 4, 5, 25}

\* the low 64 bits of a times b: a shifted left by each set bit of b, summed
\* modulo 2^64 (the sum over positions lo..hi is split in halves)
StatedProduct(a, b) ==
    LET RECURSIVE Sum(_, _)
        Sum(lo, hi) ==
            IF lo = hi
            THEN IF lo \in b THEN {k + lo : k \in a} \cap DwordBits ELSE {}
            ELSE LET mid == (lo + hi) \div 2
                 IN  Add64(Sum(lo, mid), Sum(mid + 1, hi))
    IN  Sum(0, 63)

UpperHalfSet(d) == d \ WordBits # {}

\* C26: only the low 32 bits of the dword the host returns for the load at PC
\* are the instruction: a step on a dword makes the halt decision, and the
\* register, PC and memory updates, of the step on its low 32 bits (it halts on
\* ebreak whatever the upper 32 bits are), and the disassembly text of the two
\* is the same.
C26_OnlyLowWordCounts ==
    /\ (last.op = "cpu_execute" /\ UpperHalfSet(last.instr)) =>
           LET r == cpu_execute(Plain(last.pre), ToWord(last.instr))
           IN  /\ cpu.is_running = r.c.cpu.is_running
               /\ last.n = r.ret
               /\ cpu.x = r.c.cpu.x
               /\ cpu.pc = r.c.cpu.pc
               /\ calls = r.c.calls
    /\ (last.op = "cpu_disassemble_instr" /\ UpperHalfSet(last.instr) /\ last.link # NULL) =>
           last.val = cpu_disassemble_instr(Plain(last.pre), <<>>, last.idx,
                                            ToWord(last.instr)).buffer

\* the parts of C26 that hold: a dword that is not ebreak in its low half is
\* executed as its low half is, and the text after the 13-character prefix is
\* that of the low half
C26_ExecutorsUseLowWord ==
    /\ (last.op = "cpu_execute" /\ UpperHalfSet(last.instr) /\ ToWord(last.instr) # RV64I_EBREAK) =>
           LET r == cpu_execute(Plain(last.pre), ToWord(last.instr))
           IN  cpu = r.c.cpu /\ last.n = r.ret /\ calls = r.c.calls
    /\ (last.op = "cpu_disassemble_instr" /\ UpperHalfSet(last.instr) /\ last.link # NULL /\ last.idx >= 32) =>
           LET low == cpu_disassemble_instr(Plain(last.pre), <<>>, last.idx,
                                            ToWord(last.instr)).buffer
           IN  SubSeq(last.val, 14, Len(last.val)) = SubSeq(low, 14, Len(low))

\* C27: when an allocation of the registry fails during init (registry_append
\* returns 0) init calls the host's panic; and a registry_append that fails
\* leaves the count and the entries of the registry as they were.
C27_AllocationFailure ==
    /\ (last.op = "cpu_init" /\ last.n > 0) => Panicked(calls)
    /\ (last.op = "registry_append" /\ last.n = 0) =>
           cpu.instruction_set = last.pre.instruction_set

\* the part of C27 that holds: the failed append changes nothing; and what
\* init does instead: it issues no host call, and with both allocations
\* failing it returns a struct whose registry is empty
C27_FailedAppendKeepsRegistry ==
    /\ (last.op = "registry_append" /\ last.n = 0) =>
           cpu.instruction_set = last.pre.instruction_set
    /\ (last.op = "cpu_init" /\ last.n = 2) => cpu.instruction_set.count = 0
    /\ (last.op = "cpu_init" /\ last.n > 0) => calls = <<>>

\* descriptors d and e have a word in common: with the required bits of each
\* inside its mask, some word satisfies both exactly when their required bits
\* agree on the bits both masks test
Overlap(d, e) == AND(d.required_bits, e.mask) = AND(e.required_bits, d.mask)

\* C28: in the registry built by init (RV64I followed by RV64M) every
\* descriptor's required bits lie inside its mask and no 32-bit word satisfies
\* two different descriptors, so a word that is decoded satisfies exactly the
\* descriptor found, whatever the order of the registry.
C28_DescriptorsDisjoint ==
    cpu.instruction_set = FreshCpu.instruction_set =>
        LET registry == cpu.instruction_set
            D(i) == Deref(registry.type_links[i])
        IN  /\ \A i \in 1..registry.count :
                   D(i).required_bits \subseteq D(i).mask /\ D(i).mask \subseteq WordBits
            /\ \A i, j \in 1..registry.count : i # j => ~Overlap(D(i), D(j))
            /\ (last.op = "cpu_identify_instr" /\ last.link # NULL) =>
                   Cardinality(Satisfied(registry, Deref, last.instr)) = 1

\* lw x1, -4(x31) searched in the registry built by init: the lw descriptor
\* is found and no other descriptor is satisfied
C28_Witness ==
    /\ cpu.instruction_set = FreshCpu.instruction_set
    /\ last.op = "cpu_identify_instr"
    /\ last.instr = AsmI(Neg(4), X31, <<0,1,0>>, X1, OP_LOAD)
    /\ last.name = "lw"
    /\ Satisfied(cpu.instruction_set, Deref, last.instr) = {15}

\* the step halted on an ebreak
HaltedOnEbreak ==
    /\ last.op = "cpu_execute"
    /\ ToWord(last.instr) = RV64I_EBREAK
    /\ cpu.is_running = 0

\* C29: a step that halts on ebreak changes nothing but the running flag: the
\* PC still addresses the ebreak and all 32 registers are as before, so
\* another step from that state, the host returning the ebreak for the load at
\* the same PC, halts at once again: it fetches, executes no instruction and
\* leaves the struct as it is.
C29_EbreakHaltChangesNothing ==
    HaltedOnEbreak =>
        /\ cpu = [last.pre EXCEPT !.is_running = 0]
        /\ calls = <<[svc |-> "mem_load_dword", address |-> last.pre.pc]>>
        /\ LET again == cpu_execute(Plain(cpu), last.instr)
           IN  /\ again.ret = 0
               /\ again.c.cpu = cpu
               /\ again.c.calls = <<[svc |-> "mem_load_dword", address |-> cpu.pc]>>

\* ebreak at PC 0x1000 with x1 = -1 and x31 = 1: the step halts with the PC
\* at 0x1000 and both registers as they were
C29_Witness ==
    /\ HaltedOnEbreak
    /\ last.pre.pc = {12}
    /\ cpu.pc = {12}
    /\ cpu.x[1] = DwordBits
    /\ cpu.x[31] = Dw(1)
    /\ last.n = 0

\* C30: disassembling a word that matches no descriptor, with a buffer of at
\* least 32 bytes, writes the prefix followed by "?" and returns, no
\* descriptor's disassembler having been called; with a buffer of fewer than
\* 32 bytes the call returns and the buffer is as it was.
C30_UnrecognisedDisassembly ==
    /\ (last.op = "cpu_disassemble_instr" /\ last.link = NULL /\ last.idx >= 32
          /\ last.instr \subseteq WordBits) =>
           /\ last.val = RefPrefix(last.instr) \o <<"?">>
           /\ last.n = 1
    /\ (last.op = "cpu_disassemble_instr" /\ last.idx < 32) =>
           /\ last.val = <<>>
           /\ last.n = 1

\* the parts of C30 that hold: the small buffer is left alone, and for a
\* non-zero word the "?" is in the buffer after the prefix when the call
\* through the null pointer is made
C30_TextBeforeTheCall ==
    /\ (last.op = "cpu_disassemble_instr" /\ last.link = NULL /\ last.idx >= 32
          /\ last.instr \subseteq WordBits /\ last.instr # {}) =>
           last.val = RefPrefix(last.instr) \o <<"?">>
    /\ (last.op = "cpu_disassemble_instr" /\ last.idx < 32) =>
           /\ last.val = <<>>
           /\ last.n = 1
\* the word 0 is printed without 0x: the string ends before the "?"
C30_ZeroWord ==
    (last.op = "cpu_disassemble_instr" /\ last.idx >= 32 /\ last.instr = {}) =>
        last.val = <<"0", "0", "0", "0", "0", "0", "0", "0", " ", " ", " ">>
====
